---- MODULE Spec2Model ----
(***************************************************************************)
(* Verification model of src/app.js: the resumable merge-sort driver, the  *)
(* ELO pairwise driver, the undo snapshot stack they share, the favourites *)
(* picker (PresidentialPicker) and the tier cutoff wizard.                 *)
(*                                                                         *)
(* Candidate ids are the integers 1..n; the code treats ids as opaque      *)
(* strings and only compares them for equality and, in                     *)
(* countUniqueCachePairs, by "<" to canonicalise a key.                    *)
(* A nullable field (state.sorter.stack, state.sorter.result) is a         *)
(* sequence of length 0 (null) or 1 (the value).                           *)
(***************************************************************************)
EXTENDS Integers, Sequences, FiniteSets, TLC

\* ---- bounds of the model ------------------------------------------------
MaxN == 3            \* candidates of a merge run: 1..MaxN
MaxControls == 2     \* Skip and Back answers explored in one merge run
MaxNJudge == 5       \* candidates of a merge run answered by judgments only

\* ---- program constants --------------------------------------------------
MAX_UNDO == 2000

VARIABLES
    n,        \* number of candidates loaded in state.data
    sorter,   \* state.sorter
    alias,    \* which live arrays are the very arrays of a stored snapshot
    pc,       \* position of the driver loop: "idle", "ask" (suspended in prefer), "done"
    pend,     \* the pair (a, b) the pending prefer() closure was called with
    hist,     \* the oracle's answers so far in this run, oldest first
    elo,      \* the object held by `const elo` of the running continueElo
    eloLive,  \* TRUE while that object is state.sorter.elo itself
    lastUpd,  \* the last rating update: pair, score and pre-update ratings
    saved     \* the values of state.sorter.stack at the saveState() calls of the last step

svars == <<n, sorter, alias, pc, pend, hist, elo, eloLive, lastUpd, saved>>

VARIABLES
    err,      \* the message of the exception the last handler threw, "" if none
    parked,   \* the pairs of the prefer() requests of earlier loops, still unresolved
    resumeShown,  \* #btn-resume has been unhidden by applyStateOnLoad
    uiEvents  \* clicks on Start, Cancel and Resume and page reloads so far

uvars == <<err, parked, resumeShown, uiEvents>>

VARIABLES
    pn,       \* number of items given to the PresidentialPicker (allItems.length)
    picker,   \* the fields of the PresidentialPicker instance
    pphase,   \* "new" after the constructor, "run" after initialize()
    plast,    \* the last picker operation, its argument and the state before it
    pops      \* picker operations performed after initPickerMode

pvars == <<pn, picker, pphase, plast, pops>>

VARIABLES
    cutState, \* the wizard's cutState: <<>> for null, else one record
    tiers,    \* state.tiers
    screen,   \* the screen shown: "welcome", "results", "cutoffs" or "tier"
    cops      \* clicks on the wizard's buttons so far

cvars == <<cutState, tiers, screen, cops>>

vars == <<svars, uvars, pvars, cvars>>

\* ---- helpers ------------------------------------------------------------
Min(a, b) == IF a < b THEN a ELSE b
Max(a, b) == IF a > b THEN a ELSE b

\* Array.prototype.slice(a, b) on a 0-based array
Slice(s, a, b) ==
    LET lo == Min(Max(a, 0), Len(s))
        hi == Min(Max(b, 0), Len(s))
    IN  IF lo >= hi THEN <<>> ELSE SubSeq(s, lo + 1, hi)

SliceFrom(s, a) == Slice(s, a, Len(s))

Range(s) == {s[k] : k \in 1..Len(s)}

RemoveAt(s, k) == SubSeq(s, 1, k) \o SubSeq(s, k + 2, Len(s))   \* splice(k, 1), k 0-based

IsPermutation(seq, m) == Len(seq) = m /\ Range(seq) = 1..m

Min0(S) == CHOOSE x \in S : \A y \in S : x <= y

RECURSIVE Pow2(_)
Pow2(h) == IF h = 0 THEN 1 ELSE 2 * Pow2(h - 1)

RECURSIVE CeilLog2From(_, _)
CeilLog2From(x, h) == IF Pow2(h) >= x THEN h ELSE CeilLog2From(x, h + 1)

\* Math.ceil(Math.log2(x)) for an integer x >= 1
CeilLog2(x) == CeilLog2From(x, 0)

\* the empty JS object {} used as a map
EmptyMap == [k \in {} |-> 0]

keyFor(a, b) == <<a, b>>

Invert(val) == IF val = 1 THEN -1 ELSE IF val = -1 THEN 1 ELSE 0

\* ---- progress math ------------------------------------------------------
totalComparisonUpperBound(m) ==
    IF m <= 1 THEN 0
    ELSE LET h == CeilLog2(Max(1, m)) IN m * h - (Pow2(h) - 1)

countUniqueCachePairs(c) ==
    Cardinality({ IF k[1] < k[2] THEN <<k[1], k[2]>> ELSE <<k[2], k[1]>> : k \in DOMAIN c })

\* ---- state.sorter -------------------------------------------------------
EloDefault ==
    [ratings |-> EmptyMap, kFactor |-> 32, pairsDone |-> 0, totalPairs |-> 0,
     queue |-> <<>>, history |-> EmptyMap]

defaultState ==
    [mode |-> "merge", active |-> FALSE, cache |-> EmptyMap, ties |-> {},
     stack |-> <<>>, result |-> <<>>, undo |-> <<>>, totalComparisons |-> 0,
     elo |-> <<EloDefault>>, eloIntensity |-> "balanced"]

NoAlias == [L |-> 0, R |-> 0, out |-> 0, cache |-> 0]

\* A machine value m = [s |-> state.sorter, al |-> alias, e |-> elo,
\* live |-> eloLive, sv |-> saved] is threaded through the operators below.

\* no handler has thrown, no earlier loop is left suspended
SessionUnused ==
    /\ err = ""
    /\ parked = <<>>
    /\ resumeShown = FALSE
    /\ uiEvents = 0

\* saveState(): the call asks for state to be written; the write itself is
\* debounced (300 ms), so what reaches localStorage is the state at the next
\* suspension of the loop.  sv collects the frame each call was made on.
saveState(m) == [m EXCEPT !.sv = @ \cup {m.s.stack}]

ShiftAlias(al, d) ==
    [f \in DOMAIN al |-> IF al[f] > d THEN al[f] - d ELSE 0]

\* the cap cutting the stack at its top: splice(MAX_UNDO)
pushUndoSnapshotDropNewest(m) ==
    LET snap == [mode |-> m.s.mode, active |-> m.s.active,
                 totalComparisons |-> m.s.totalComparisons,
                 stack |-> m.s.stack, cache |-> m.s.cache, ties |-> m.s.ties,
                 elo |-> m.s.elo]
        v == Append(m.s.undo, snap)
    IN  [m EXCEPT !.s.undo = SubSeq(v, 1, Min(Len(v), MAX_UNDO))]

pushUndoSnapshot(m) ==
    LET snap == [mode |-> m.s.mode, active |-> m.s.active,
                 totalComparisons |-> m.s.totalComparisons,
                 stack |-> m.s.stack, cache |-> m.s.cache, ties |-> m.s.ties,
                 elo |-> m.s.elo]
        v == Append(m.s.undo, snap)
        d == IF Len(v) > MAX_UNDO THEN Len(v) - MAX_UNDO ELSE 0
    IN  [m EXCEPT !.s.undo = SubSeq(v, d + 1, Len(v)),
                  !.al = ShiftAlias(m.al, d)]

\* restoreFromUndo: the result of the call (ok) and the machine after it.
\* prev.stack, prev.cache, prev.ties and prev.elo are assigned by reference:
\* the live objects become the objects stored in the snapshot on top, and an
\* `elo` object a running driver holds is no longer state.sorter.elo.
restoreFromUndo(m) ==
    IF Len(m.s.undo) < 2 THEN [ok |-> FALSE, m |-> m]
    ELSE LET u == SubSeq(m.s.undo, 1, Len(m.s.undo) - 1)
             prev == u[Len(u)]
         IN  [ok |-> TRUE,
              m |-> saveState(
                    [m EXCEPT !.s = [m.s EXCEPT !.undo = u,
                                                !.mode = prev.mode,
                                                !.active = prev.active,
                                                !.totalComparisons = prev.totalComparisons,
                                                !.stack = prev.stack,
                                                !.cache = prev.cache,
                                                !.ties = prev.ties,
                                                !.elo = prev.elo],
                              !.al = [L |-> Len(u), R |-> Len(u), out |-> Len(u),
                                      cache |-> Len(u)],
                              !.live = FALSE])]

\* ---- in-place mutations of the live frame -------------------------------
\* st.out, st.L and st.R are mutated in place (push, splice); when the live
\* array is the array of a stored snapshot, the snapshot changes with it.
Aliased(m, f) == m.al[f] # 0 /\ m.al[f] <= Len(m.s.undo)

MutOut(m, newOut) ==
    [m EXCEPT !.s.stack[1].out = newOut,
              !.s.undo = IF Aliased(m, "out") /\ Len(m.s.undo[m.al.out].stack) = 1
                         THEN [@ EXCEPT ![m.al.out].stack[1].out = newOut] ELSE @]

MutL(m, newL) ==
    [m EXCEPT !.s.stack[1].L = newL,
              !.s.undo = IF Aliased(m, "L") /\ Len(m.s.undo[m.al.L].stack) = 1
                         THEN [@ EXCEPT ![m.al.L].stack[1].L = newL] ELSE @]

MutR(m, newR) ==
    [m EXCEPT !.s.stack[1].R = newR,
              !.s.undo = IF Aliased(m, "R") /\ Len(m.s.undo[m.al.R].stack) = 1
                         THEN [@ EXCEPT ![m.al.R].stack[1].R = newR] ELSE @]

\* state.sorter.cache[k] = v and state.sorter.ties[k] = true are writes into
\* the live objects, which restoreFromUndo may have made a snapshot's own.
MutCache(m, newCache, newTies) ==
    [m EXCEPT !.s.cache = newCache, !.s.ties = newTies,
              !.s.undo = IF Aliased(m, "cache")
                         THEN [@ EXCEPT ![m.al.cache].cache = newCache,
                                        ![m.al.cache].ties = newTies] ELSE @]

\* ---- continueSort -------------------------------------------------------
\* The loop of continueSort runs from one suspension point (await prefer) to
\* the next, or to completion.  Outer is the top of `while (st.width < N)`,
\* Inner the top of `while (st.li < st.L.length && st.rj < st.R.length)`.
\* Both return the machine, the position reached and the pair asked for.
\* N is st.arr.length read once at entry; every assignment to st.arr keeps
\* its length, and every id of arr is in idMap (state.data), so objsOf and
\* idsOf are the identity on the lists the loop handles.

\* Emit with the test `res > 0`: a tie emits the right element
EmitTieRight(m, res) ==
    LET f == m.s.stack[1]
    IN  IF res > 0
        THEN [MutOut(m, Append(f.out, f.L[f.li + 1])) EXCEPT !.s.stack[1].li = f.li + 1]
        ELSE [MutOut(m, Append(f.out, f.R[f.rj + 1])) EXCEPT !.s.stack[1].rj = f.rj + 1]

\* `if (res >= 0) { out.push(L[li]); li++ } else { out.push(R[rj]); rj++ }`
Emit(m, res) ==
    LET f == m.s.stack[1]
    IN  IF res >= 0
        THEN [MutOut(m, Append(f.out, f.L[f.li + 1])) EXCEPT !.s.stack[1].li = f.li + 1]
        ELSE [MutOut(m, Append(f.out, f.R[f.rj + 1])) EXCEPT !.s.stack[1].rj = f.rj + 1]

\* the `Done` tail yielding st.out in place of st.arr
FinishOut(m) ==
    [m |-> saveState([m EXCEPT !.s.active = FALSE,
                               !.s.result = <<m.s.stack[1].out>>,
                               !.s.stack = <<>>]),
     pc |-> "done", pend |-> <<>>]

\* the `Done` tail of continueSort
Finish(m) ==
    [m |-> saveState([m EXCEPT !.s.active = FALSE,
                               !.s.result = <<m.s.stack[1].arr>>,
                               !.s.stack = <<>>]),
     pc |-> "done", pend |-> <<>>]

\* CloseBlock without `st.li = 0; st.rj = 0`
CloseBlockNoReset(m) ==
    LET f == m.s.stack[1]
        out1 == f.out \o SliceFrom(f.L, f.li) \o SliceFrom(f.R, f.rj)
        m1 == MutOut(m, out1)
        li1 == Max(f.li, Len(f.L))
        rj1 == Max(f.rj, Len(f.R))
        segLen == Len(out1) + (Len(f.L) - li1) + (Len(f.R) - rj1)
        arr1 == Slice(f.arr, 0, f.i) \o out1 \o SliceFrom(f.arr, f.i + segLen)
    IN  saveState(
            [m1 EXCEPT !.s.stack[1] = [f EXCEPT !.arr = arr1, !.L = <<>>, !.R = <<>>,
                                                 !.out = <<>>, !.li = li1, !.rj = rj1,
                                                 !.i = f.i + 2 * f.width],
                       !.al = [m1.al EXCEPT !.L = 0, !.R = 0, !.out = 0]])

\* "Append remaining" and "Splice merged run back"
CloseBlock(m) ==
    LET f == m.s.stack[1]
        out1 == f.out \o SliceFrom(f.L, f.li) \o SliceFrom(f.R, f.rj)
        m1 == MutOut(m, out1)
        li1 == Max(f.li, Len(f.L))
        rj1 == Max(f.rj, Len(f.R))
        segLen == Len(out1) + (Len(f.L) - li1) + (Len(f.R) - rj1)
        arr1 == Slice(f.arr, 0, f.i) \o out1 \o SliceFrom(f.arr, f.i + segLen)
    IN  saveState(
            [m1 EXCEPT !.s.stack[1] = [f EXCEPT !.arr = arr1, !.L = <<>>, !.R = <<>>,
                                                 !.out = <<>>, !.li = 0, !.rj = 0,
                                                 !.i = f.i + 2 * f.width],
                       !.al = [m1.al EXCEPT !.L = 0, !.R = 0, !.out = 0]])

\* "Prepare L,R if empty"
PrepareBlock(m) ==
    LET f == m.s.stack[1]
    IN  IF Len(f.L) = 0 /\ Len(f.R) = 0
        THEN [m EXCEPT !.s.stack[1] = [f EXCEPT !.L = Slice(f.arr, f.i, f.i + f.width),
                                                 !.R = Slice(f.arr, f.i + f.width, f.i + 2 * f.width),
                                                 !.out = <<>>, !.li = 0, !.rj = 0],
                       !.al = [m.al EXCEPT !.L = 0, !.R = 0, !.out = 0]]
        ELSE m

\* "If R is empty (odd tail), fast-forward this block"
FastForward(m) ==
    LET f == m.s.stack[1]
        arr1 == Slice(f.arr, 0, f.i) \o f.L \o SliceFrom(f.arr, f.i + Len(f.L))
    IN  saveState(
            [m EXCEPT !.s.stack[1] = [f EXCEPT !.arr = arr1, !.L = <<>>, !.R = <<>>,
                                                !.out = <<>>, !.li = 0, !.rj = 0,
                                                !.i = f.i + 2 * f.width],
                      !.al = [m.al EXCEPT !.L = 0, !.R = 0, !.out = 0]])

RECURSIVE Outer(_), Inner(_)

Inner(m) ==
    LET f == m.s.stack[1]
    IN  IF f.li < Len(f.L) /\ f.rj < Len(f.R)
        THEN LET a == f.L[f.li + 1]
                 b == f.R[f.rj + 1]
                 m1 == pushUndoSnapshot(m)
             IN  IF keyFor(a, b) \in DOMAIN m1.s.cache
                 THEN Inner(saveState(Emit(m1, m1.s.cache[keyFor(a, b)])))  \* prefer: cached
                 ELSE [m |-> m1, pc |-> "ask", pend |-> <<a, b>>]
        ELSE Outer(CloseBlock(m))

Outer(m) ==
    LET f == m.s.stack[1]
        N == Len(f.arr)
    IN  IF ~(f.width < N) THEN Finish(m)
        ELSE IF f.i >= Len(f.arr)
        THEN Outer([m EXCEPT !.s.stack[1].width = 2 * f.width, !.s.stack[1].i = 0])
        ELSE LET m1 == PrepareBlock(m)
             IN  IF Len(m1.s.stack[1].R) = 0 THEN Outer(FastForward(m1))
                 ELSE Inner(m1)

\* continueSort from its entry: `if (!st) return`
continueSort(m) ==
    IF m.s.stack = <<>> THEN [m |-> m, pc |-> "done", pend |-> <<>>]
    ELSE Outer(m)

\* ---- initSort -----------------------------------------------------------
\* items is the shuffled candidate list as a sequence of ids
initSort(m, items) ==
    saveState(pushUndoSnapshot(
        [m EXCEPT !.s.active = TRUE,
                  !.s.result = <<>>,
                  !.s.stack = <<[width |-> 1, i |-> 0, arr |-> items,
                                 L |-> <<>>, R |-> <<>>, out |-> <<>>,
                                 li |-> 0, rj |-> 0]>>,
                  !.s.totalComparisons = totalComparisonUpperBound(Len(items)),
                  !.s.undo = <<>>,
                  !.al = NoAlias]))

\* ---- makePrefer.finish --------------------------------------------------
Outcomes == {"Left", "Tie", "Right", "Skip", "Back"}
ValOf(o) == IF o = "Left" THEN 1 ELSE IF o = "Right" THEN -1 ELSE 0

\* finish storing the same value under both key orders
finishNoInvert(m, a, b, o) ==
    IF o \in {"Left", "Tie", "Right"}
    THEN LET val == ValOf(o)
             c1 == (keyFor(a, b) :> val) @@ m.s.cache
             c2 == (keyFor(b, a) :> val) @@ c1
             t2 == IF val = 0 THEN m.s.ties \cup {keyFor(a, b), keyFor(b, a)} ELSE m.s.ties
         IN  saveState(MutCache(m, c2, t2))
    ELSE saveState(m)

\* finish recording a tie under the key a|b only
finishTieOneKey(m, a, b, o) ==
    IF o \in {"Left", "Tie", "Right"}
    THEN LET val == ValOf(o)
             c1 == (keyFor(a, b) :> val) @@ m.s.cache
             c2 == (keyFor(b, a) :> Invert(val)) @@ c1
             t2 == IF val = 0 THEN m.s.ties \cup {keyFor(a, b)} ELSE m.s.ties
         IN  saveState(MutCache(m, c2, t2))
    ELSE saveState(m)

finish(m, a, b, o) ==
    IF o \in {"Left", "Tie", "Right"}
    THEN LET val == ValOf(o)
             c1 == (keyFor(a, b) :> val) @@ m.s.cache
             c2 == (keyFor(b, a) :> Invert(val)) @@ c1
             t2 == IF val = 0 THEN m.s.ties \cup {keyFor(a, b), keyFor(b, a)} ELSE m.s.ties
         IN  saveState(MutCache(m, c2, t2))
    ELSE saveState(m)

\* ---- the continuation of continueSort after `await prefer(a, b)` --------
AfterBack(m) ==
    LET r == restoreFromUndo(m)
    IN  IF ~r.ok THEN m
        ELSE IF r.m.s.stack = <<>>
             \* Object.assign(st, null) copies nothing; state.sorter.stack = st
             THEN [r.m EXCEPT !.s.stack = m.s.stack, !.al.L = m.al.L,
                              !.al.R = m.al.R, !.al.out = m.al.out]
             ELSE r.m


\* AfterSkip without the push that puts the rotated left element back
AfterSkipDrop(m) ==
    LET f == m.s.stack[1]
        lRem == Len(f.L) - f.li
        rRem == Len(f.R) - f.rj
    IN  IF lRem = 1 /\ rRem = 1
        THEN [MutOut(m, Append(f.out, f.L[f.li + 1])) EXCEPT !.s.stack[1].li = f.li + 1]
        ELSE LET m1 == IF f.li >= 0 /\ f.li < Len(f.L)
                       THEN MutL(m, RemoveAt(f.L, f.li)) ELSE m
             IN  IF f.rj >= 0 /\ f.rj < Len(f.R)
                 THEN MutR(m1, Append(RemoveAt(f.R, f.rj), f.R[f.rj + 1])) ELSE m1

\* AfterSkip rotating the left list only
AfterSkipRotateLeft(m) ==
    LET f == m.s.stack[1]
        lRem == Len(f.L) - f.li
        rRem == Len(f.R) - f.rj
    IN  IF lRem = 1 /\ rRem = 1
        THEN [MutOut(m, Append(f.out, f.L[f.li + 1])) EXCEPT !.s.stack[1].li = f.li + 1]
        ELSE IF f.li >= 0 /\ f.li < Len(f.L)
             THEN MutL(m, Append(RemoveAt(f.L, f.li), f.L[f.li + 1])) ELSE m

AfterSkip(m) ==
    LET f == m.s.stack[1]
        lRem == Len(f.L) - f.li
        rRem == Len(f.R) - f.rj
    IN  IF lRem = 1 /\ rRem = 1
        THEN [MutOut(m, Append(f.out, f.L[f.li + 1])) EXCEPT !.s.stack[1].li = f.li + 1]
        ELSE LET m1 == IF f.li >= 0 /\ f.li < Len(f.L)
                       THEN MutL(m, Append(RemoveAt(f.L, f.li), f.L[f.li + 1])) ELSE m
             IN  IF f.rj >= 0 /\ f.rj < Len(f.R)
                 THEN MutR(m1, Append(RemoveAt(f.R, f.rj), f.R[f.rj + 1])) ELSE m1

Resume(m, o) ==
    IF o = "Back" THEN Inner(AfterBack(m))
    ELSE IF o = "Skip" THEN Inner(saveState(AfterSkip(m)))
    ELSE Inner(saveState(Emit(m, ValOf(o))))

\* ---- Tier Cutoffs Wizard ------------------------------------------------
CUTOFF_TIERS == <<"SS", "S", "A", "B", "C", "D", "F">>

NoTiers == [t \in Range(CUTOFF_TIERS) \cup {"Unplaced"} |-> <<>>]

\* the wizard not started
CutoffsUnused ==
    /\ cutState = <<>>
    /\ tiers = NoTiers
    /\ screen = "welcome"
    /\ cops = 0

\* cutState.chosen[t] || 0
ChosenOr0(cs, t) == IF t \in DOMAIN cs.chosen THEN cs.chosen[t] ELSE 0

startCutoffs(result) ==
    [rankIds |-> result, pos |-> 0, chosen |-> EmptyMap, cursor |-> 0]

Clamp(lo, hi, v) == Max(lo, Min(hi, v))

applyCut(cs, value) ==
    LET tier == CUTOFF_TIERS[cs.pos + 1]
        remaining == Len(cs.rankIds) - cs.cursor
        count == Clamp(0, remaining, value)
    IN  [cs EXCEPT !.chosen = [t \in DOMAIN cs.chosen \cup {tier} |->
                                 IF t = tier THEN count ELSE cs.chosen[t]]]

nextCut(cs, value) ==
    LET c1 == applyCut(cs, value)
        tier == CUTOFF_TIERS[c1.pos + 1]
    IN  [c1 EXCEPT !.cursor = @ + ChosenOr0(c1, tier),
                   !.pos = IF @ < Len(CUTOFF_TIERS) - 1 THEN @ + 1 ELSE @]

\* prevCut without `cutState.cursor -= cutState.chosen[prevTier] || 0`
prevCutKeepsCursor(cs) ==
    IF cs.pos = 0 THEN cs
    ELSE [cs EXCEPT !.pos = @ - 1]

prevCut(cs) ==
    IF cs.pos = 0 THEN cs
    ELSE LET prevTier == CUTOFF_TIERS[cs.pos]
         IN  [cs EXCEPT !.pos = @ - 1, !.cursor = @ - ChosenOr0(cs, prevTier)]

\* the forEach of applyCutoffsToTiers from tier k (1-based) on, cursor ids placed
RECURSIVE FillTiers(_, _, _, _)
FillTiers(cs, k, cursor, acc) ==
    IF k > Len(CUTOFF_TIERS)
    THEN [acc EXCEPT !["Unplaced"] = SliceFrom(cs.rankIds, cursor)]
    ELSE LET t == CUTOFF_TIERS[k]
             cnt == Clamp(0, Len(cs.rankIds) - cursor, ChosenOr0(cs, t))
         IN  FillTiers(cs, k + 1, cursor + cnt,
                       [acc EXCEPT ![t] = Slice(cs.rankIds, cursor, cursor + cnt)])

\* FillTiers without `cursor += n`
RECURSIVE FillTiersNoAdvance(_, _, _, _)
FillTiersNoAdvance(cs, k, cursor, acc) ==
    IF k > Len(CUTOFF_TIERS)
    THEN [acc EXCEPT !["Unplaced"] = SliceFrom(cs.rankIds, cursor)]
    ELSE LET t == CUTOFF_TIERS[k]
             cnt == Clamp(0, Len(cs.rankIds) - cursor, ChosenOr0(cs, t))
         IN  FillTiersNoAdvance(cs, k + 1, cursor,
                       [acc EXCEPT ![t] = Slice(cs.rankIds, cursor, cursor + cnt)])

applyCutoffsNoAdvance(cs) == FillTiersNoAdvance(cs, 1, 0, NoTiers)

applyCutoffsToTiers(cs) == FillTiers(cs, 1, 0, NoTiers)

\* ---- PresidentialPicker -------------------------------------------------
MAX_BATCH_SIZE == 6
MIN_BATCH_SIZE == 2
WHITTLE_DIVISOR == 2
HISTORY_LIMIT == 50

\* the fields set by the constructor.  promoted is not a field of the class:
\* it records every promotion nextRound has made, as the id and the picker
\* before and after addToFavorites.
NewPicker ==
    [eliminated |-> <<>>, survived |-> <<>>, current |-> <<>>, evaluating |-> <<>>,
     favorites |-> <<>>, history |-> <<>>, historyIndex |-> -1,
     batchSize |-> MAX_BATCH_SIZE, pickCount |-> 0,
     promoted |-> {}]

\* no picker in use (the sorter specifications)
PickerUnused ==
    /\ pn = 0
    /\ picker = NewPicker
    /\ pphase = "new"
    /\ plast = <<>>
    /\ pops = 0

calculateBatchSize(remaining) ==
    LET ideal == (remaining + WHITTLE_DIVISOR - 1) \div WHITTLE_DIVISOR
    IN  Max(MIN_BATCH_SIZE, Min(MAX_BATCH_SIZE, ideal))

\* every order shuffle() can leave an array in
Shuffles(arr) ==
    LET k == Len(arr)
        Orders == {f \in [1..k -> 1..k] : \A i, j \in 1..k : f[i] = f[j] => i = j}
    IN  {[i \in 1..k |-> arr[f[i]]] : f \in Orders}

EntryIds(entries) == [k \in 1..Len(entries) |-> entries[k].id]

IndexOf(arr, x) == IF x \in Range(arr) THEN Min0({k \in 1..Len(arr) : arr[k] = x}) - 1 ELSE -1

\* the loop of removeFromEliminated, i counting down over the 0-based indices
RECURSIVE RemoveLoop(_, _, _, _, _)
RemoveLoop(eliminated, survived, restoredCount, i, favoriteId) ==
    IF i < 0 THEN [eliminated |-> eliminated, survived |-> survived,
                   restoredCount |-> restoredCount]
    ELSE LET entry == eliminated[i + 1]
             idx == IndexOf(entry.eliminatedBy, favoriteId)
             by == RemoveAt(entry.eliminatedBy, idx)
         IN  IF idx = -1
             THEN RemoveLoop(eliminated, survived, restoredCount, i - 1, favoriteId)
             ELSE IF Len(by) = 0
             THEN RemoveLoop(RemoveAt(eliminated, i), Append(survived, entry.id),
                             restoredCount + 1, i - 1, favoriteId)
             ELSE RemoveLoop([eliminated EXCEPT ![i + 1].eliminatedBy = by], survived,
                             restoredCount, i - 1, favoriteId)

\* removeFromEliminated without its loop over the eliminatedBy lists
removeFromEliminatedNoLoop(p, favoriteId) ==
    IF Len(p.eliminated) > 0 /\ Len(p.current) = 0 /\ Len(p.survived) = 0
    THEN [p EXCEPT !.survived = EntryIds(p.eliminated), !.eliminated = <<>>]
    ELSE p

removeFromEliminated(p, favoriteId) ==
    LET r == RemoveLoop(p.eliminated, p.survived, 0, Len(p.eliminated) - 1, favoriteId)
    IN  IF /\ r.restoredCount = 0 /\ Len(r.eliminated) > 0
           /\ Len(p.current) = 0 /\ Len(r.survived) = 0
        THEN [p EXCEPT !.survived = r.survived \o EntryIds(r.eliminated),
                       !.eliminated = <<>>]
        ELSE [p EXCEPT !.survived = r.survived, !.eliminated = r.eliminated]

addToFavorites(p, id) ==
    removeFromEliminated(
        [p EXCEPT !.favorites = IF id \in Range(@) THEN @ ELSE Append(@, id)], id)

getStateSnapshot(p) ==
    [eliminated |-> p.eliminated, survived |-> p.survived, current |-> p.current,
     evaluating |-> p.evaluating, favorites |-> p.favorites,
     batchSize |-> p.batchSize, pickCount |-> p.pickCount]

\* nextBatch and nextRound call each other and nextRound shuffles: each yields
\* the set of picker states it can end in
RECURSIVE nextBatch(_), nextRound(_)
nextBatch(p) ==
    LET stuck == Len(p.current) = 0 /\ Len(p.survived) = 0 /\ Len(p.eliminated) > 0
        p1 == IF stuck
              THEN [p EXCEPT !.survived = @ \o EntryIds(p.eliminated), !.eliminated = <<>>]
              ELSE p
    IN  IF Len(p1.current) < p1.batchSize /\ Len(p1.survived) > 0
        THEN nextRound(p1)
        ELSE {[p1 EXCEPT !.evaluating = Slice(p1.current, 0, p1.batchSize),
                         !.current = SliceFrom(p1.current, p1.batchSize)]}

nextRound(p) ==
    LET p1 == IF Len(p.current) = 0 /\ Len(p.survived) = 1
              THEN LET q == addToFavorites([p EXCEPT !.survived = <<>>], p.survived[1])
                   IN  [q EXCEPT !.promoted = @ \cup {[id |-> p.survived[1],
                                                       before |-> getStateSnapshot(p),
                                                       after |-> getStateSnapshot(q)]}]
              ELSE p
    IN  UNION {nextBatch([p1 EXCEPT
                   !.current = @ \o sh,
                   !.survived = <<>>,
                   !.batchSize = calculateBatchSize(Len(p1.current) + Len(sh))])
               : sh \in Shuffles(p1.survived)}

restoreSnapshot(p, snap) ==
    [p EXCEPT !.eliminated = snap.eliminated, !.survived = snap.survived,
              !.current = snap.current, !.evaluating = snap.evaluating,
              !.favorites = snap.favorites, !.batchSize = snap.batchSize,
              !.pickCount = snap.pickCount]

pushHistory(p) ==
    LET kept == IF p.historyIndex < Len(p.history) - 1
                THEN Slice(p.history, 0, p.historyIndex + 1) ELSE p.history
        h == Append(kept, getStateSnapshot(p))
    IN  IF Len(h) > HISTORY_LIMIT
        THEN [p EXCEPT !.history = Tail(h), !.historyIndex = Len(h) - 2]
        ELSE [p EXCEPT !.history = h, !.historyIndex = Len(h) - 1]

RemainingCount(p) ==
    Len(p.current) + Len(p.survived) + Len(p.evaluating) + Len(p.eliminated)

NotIn(ids, picked) == SelectSeq(ids, LAMBDA id : id \notin Range(picked))

\* mutant of pick: the final pair is appended with the unpicked id first
pickUnpickedFirst(p, pickedIds) ==
    LET p0 == [pushHistory(p) EXCEPT !.pickCount = @ + 1]
        notPicked == NotIn(p0.evaluating, pickedIds)
    IN  IF RemainingCount(p0) = 2 /\ Len(p0.evaluating) = 2 /\ Len(pickedIds) = 1
        THEN {[p0 EXCEPT !.favorites = @ \o <<notPicked[1], pickedIds[1]>>,
                         !.evaluating = <<>>]}
        ELSE nextBatch([p0 EXCEPT
                 !.survived = @ \o pickedIds,
                 !.eliminated = @ \o [k \in 1..Len(notPicked) |->
                                         [id |-> notPicked[k], eliminatedBy |-> pickedIds]],
                 !.evaluating = <<>>])

\* mutant of pick: the final pair replaces favorites
pickFinalPairOverwrites(p, pickedIds) ==
    LET p0 == [pushHistory(p) EXCEPT !.pickCount = @ + 1]
        notPicked == NotIn(p0.evaluating, pickedIds)
    IN  IF RemainingCount(p0) = 2 /\ Len(p0.evaluating) = 2 /\ Len(pickedIds) = 1
        THEN {[p0 EXCEPT !.favorites = <<pickedIds[1], notPicked[1]>>,
                         !.evaluating = <<>>]}
        ELSE nextBatch([p0 EXCEPT
                 !.survived = @ \o pickedIds,
                 !.eliminated = @ \o [k \in 1..Len(notPicked) |->
                                         [id |-> notPicked[k], eliminatedBy |-> pickedIds]],
                 !.evaluating = <<>>])

\* mutant of pick: the candidates not picked are eliminated by nobody
pickEliminatedByNobody(p, pickedIds) ==
    LET p0 == [pushHistory(p) EXCEPT !.pickCount = @ + 1]
        notPicked == NotIn(p0.evaluating, pickedIds)
    IN  IF RemainingCount(p0) = 2 /\ Len(p0.evaluating) = 2 /\ Len(pickedIds) = 1
        THEN {[p0 EXCEPT !.favorites = @ \o <<pickedIds[1], notPicked[1]>>,
                         !.evaluating = <<>>]}
        ELSE nextBatch([p0 EXCEPT
                 !.survived = @ \o pickedIds,
                 !.eliminated = @ \o [k \in 1..Len(notPicked) |->
                                         [id |-> notPicked[k], eliminatedBy |-> <<>>]],
                 !.evaluating = <<>>])

pick(p, pickedIds) ==
    LET p0 == [pushHistory(p) EXCEPT !.pickCount = @ + 1]
        notPicked == NotIn(p0.evaluating, pickedIds)
    IN  IF RemainingCount(p0) = 2 /\ Len(p0.evaluating) = 2 /\ Len(pickedIds) = 1
        THEN {[p0 EXCEPT !.favorites = @ \o <<pickedIds[1], notPicked[1]>>,
                         !.evaluating = <<>>]}
        ELSE nextBatch([p0 EXCEPT
                 !.survived = @ \o pickedIds,
                 !.eliminated = @ \o [k \in 1..Len(notPicked) |->
                                         [id |-> notPicked[k], eliminatedBy |-> pickedIds]],
                 !.evaluating = <<>>])

pass(p) ==
    LET p0 == pushHistory(p)
    IN  nextBatch([p0 EXCEPT !.survived = @ \o p0.evaluating, !.evaluating = <<>>])

canUndo(p) == p.historyIndex >= 0
canRedo(p) == p.historyIndex < Len(p.history) - 1

\* undo that does not keep the current state for redo
undoNoRedoSave(p) ==
    [restoreSnapshot(p, p.history[p.historyIndex + 1]) EXCEPT !.historyIndex = @ - 1]

undo(p) ==
    LET h == IF p.historyIndex = Len(p.history) - 1
             THEN Append(p.history, getStateSnapshot(p)) ELSE p.history
    IN  [restoreSnapshot([p EXCEPT !.history = h], h[p.historyIndex + 1])
            EXCEPT !.historyIndex = @ - 1]

\* redo reads history[historyIndex + 1] after the increment; past the end that is
\* undefined, JSON.parse throws and only the increment has happened
redo(p) ==
    LET at == p.historyIndex + 1
    IN  IF at + 1 < Len(p.history)
        THEN [threw |-> FALSE,
              p |-> restoreSnapshot([p EXCEPT !.historyIndex = at], p.history[at + 2])]
        ELSE [threw |-> TRUE, p |-> [p EXCEPT !.historyIndex = at]]

isComplete(p, total) ==
    LET allRanked == Len(p.favorites) = total
        nothingLeft == /\ Len(p.evaluating) = 0 /\ Len(p.current) = 0
                       /\ Len(p.survived) = 0 /\ Len(p.eliminated) = 0
    IN  allRanked \/ (nothingLeft /\ Len(p.favorites) > 0)

initialize(p, total) ==
    UNION {nextBatch([p EXCEPT
               !.eliminated = <<>>, !.survived = <<>>, !.current = ids,
               !.evaluating = <<>>, !.favorites = <<>>, !.history = <<>>,
               !.historyIndex = -1, !.pickCount = 0,
               !.batchSize = calculateBatchSize(Len(ids))])
           : ids \in Shuffles([k \in 1..total |-> k])}

\* PickerUI.update: a batch under 2 of an unfinished picker is regenerated.
\* That leaves a batch of 0 or of at least 2, so the auto-pass timer that
\* updateEvaluating sets for a batch of exactly 1 is never armed.
update(p, total) ==
    IF Len(p.evaluating) < 2 /\ ~isComplete(p, total) THEN nextBatch(p) ELSE {p}

\* ---- the merge driver as a state machine --------------------------------
Machine == [s |-> sorter, al |-> alias, e |-> elo, live |-> eloLive, sv |-> {}]

\* the machine of a freshly reset session: state = defaultState()
FreshMachine ==
    [s |-> defaultState, al |-> NoAlias, e |-> EloDefault, live |-> FALSE, sv |-> {}]

Judgments == {"Left", "Tie", "Right"}

Count(h, S) == Cardinality({k \in 1..Len(h) : h[k] \in S})
Controls(h) == Count(h, {"Skip", "Back"})

Install(r) ==
    /\ sorter' = r.m.s
    /\ alias' = r.m.al
    /\ elo' = r.m.e
    /\ eloLive' = r.m.live
    /\ pc' = r.pc
    /\ pend' = r.pend
    /\ saved' = r.m.sv

InitMerge ==
    /\ n \in 1..MaxN
    /\ sorter = defaultState
    /\ alias = NoAlias
    /\ pc = "idle"
    /\ pend = <<>>
    /\ hist = <<>>
    /\ elo = EloDefault
    /\ eloLive = FALSE
    /\ lastUpd = <<>>
    /\ saved = {}
    /\ SessionUnused
    /\ PickerUnused
    /\ CutoffsUnused

\* startSorting: state = defaultState(); initSort(items); continueSort()
startSorting ==
    /\ pc = "idle"
    /\ Install(continueSort(initSort(FreshMachine, [k \in 1..n |-> k])))
    /\ tiers' = NoTiers
    /\ UNCHANGED <<n, hist, lastUpd, uvars, pvars, cutState, screen, cops>>

\* the oracle answers the pending prefer(a, b): finish(val), then the loop
\* of continueSort runs on to its next suspension or to completion
Answer(o) ==
    /\ pc = "ask"
    /\ o \in {"Skip", "Back"} => Controls(hist) < MaxControls
    /\ Install(Resume(finish(Machine, pend[1], pend[2], o), o))
    /\ hist' = Append(hist, o)
    /\ UNCHANGED <<n, lastUpd, uvars, pvars, cvars>>

NextMerge ==
    \/ startSorting
    \/ \E o \in Outcomes : Answer(o)

SpecMerge == InitMerge /\ [][NextMerge]_vars

\* The same driver on up to MaxNSkip candidates, so that a block with two
\* candidates on each side is merged under Skip and Back, with an oracle
\* that never answers Tie.
MaxNSkip == 4
MaxSkipControls == 2   \* Skip and Back answers explored in one such run

InitSkip ==
    /\ n \in 1..MaxNSkip
    /\ sorter = defaultState
    /\ alias = NoAlias
    /\ pc = "idle"
    /\ pend = <<>>
    /\ hist = <<>>
    /\ elo = EloDefault
    /\ eloLive = FALSE
    /\ lastUpd = <<>>
    /\ saved = {}
    /\ SessionUnused
    /\ PickerUnused
    /\ CutoffsUnused

\* the oracle's answer, with at most MaxSkipControls Skip and Back answers
AnswerSkip(o) ==
    /\ pc = "ask"
    /\ o \in {"Skip", "Back"} => Controls(hist) < MaxSkipControls
    /\ Install(Resume(finish(Machine, pend[1], pend[2], o), o))
    /\ hist' = Append(hist, o)
    /\ UNCHANGED <<n, lastUpd, uvars, pvars, cvars>>

NextSkip ==
    \/ startSorting
    \/ \E o \in Outcomes \ {"Tie"} : AnswerSkip(o)

SpecSkip == InitSkip /\ [][NextSkip]_vars

\* The same driver with an oracle that always judges (Left, Tie or Right),
\* on up to MaxNJudge candidates.
InitMergeJudge ==
    /\ n \in 1..MaxNJudge
    /\ sorter = defaultState
    /\ alias = NoAlias
    /\ pc = "idle"
    /\ pend = <<>>
    /\ hist = <<>>
    /\ elo = EloDefault
    /\ eloLive = FALSE
    /\ lastUpd = <<>>
    /\ saved = {}
    /\ SessionUnused
    /\ PickerUnused
    /\ CutoffsUnused

NextMergeJudge ==
    \/ startSorting
    \/ \E o \in {"Left", "Tie", "Right"} : Answer(o)

SpecMergeJudge == InitMergeJudge /\ [][NextMergeJudge]_vars

\* ---- ELO arithmetic ------------------------------------------------------
\* Ratings, scores and expected scores are JS doubles.  They are held here in
\* fixed point: the value x is the integer x * RUnit.  Math.pow(10, d / 400)
\* is evaluated as e^(d * ln(10) / 400) by its Taylor series in that fixed
\* point, so eloExpected is exact where the rating gap is 0 (Math.pow(10, 0)
\* = 1, expected score 0.5) and correct to about three decimals elsewhere.
RUnit == 10000
Ln10 == 23026        \* ln(10) * RUnit

RECURSIVE ExpTerms(_, _, _)
ExpTerms(y, term, k) ==
    IF term = 0 THEN 0 ELSE term + ExpTerms(y, (term * y) \div (k * RUnit), k + 1)

\* e^(y / RUnit) * RUnit, for y >= 0
ExpFP(y) == ExpTerms(y, RUnit, 1)

\* Math.pow(10, d / 400) * RUnit for a rating gap d >= 0 (d in fixed point)
RECURSIVE Pow10FP(_)
Pow10FP(d) ==
    IF d >= 400 * RUnit THEN 10 * Pow10FP(d - 400 * RUnit)
    ELSE ExpFP(((d \div 400) * Ln10) \div RUnit)

\* 1 / (1 + Math.pow(10, (rb - ra) / 400))
eloExpected(ra, rb) ==
    LET d == rb - ra
    IN  IF d >= 0 THEN (RUnit * RUnit) \div (RUnit + Pow10FP(d))
        ELSE (Pow10FP(-d) * RUnit) \div (Pow10FP(-d) + RUnit)

\* eloUpdate without the expected score: r + k * score
eloUpdateNoExpected(r, score, expected, k) == r + k * score

\* r + k * (score - expected)
eloUpdate(r, score, expected, k) == r + k * (score - expected)

\* Math.round of a positive rating, as a whole number of points
RoundRating(r) == (r + RUnit \div 2) \div RUnit

\* Object.keys(ratings).sort((a, b) => ratings[b] - ratings[a]): keys in
\* insertion order (the ids 1..n in the order of items), sorted stably by
\* descending rating
SortedByRating(ratings) ==
    LET ids == DOMAIN ratings
        Before(j, k) == ratings[j] > ratings[k] \/ (ratings[j] = ratings[k] /\ j < k)
    IN  [p \in 1..Cardinality(ids) |->
            CHOOSE k \in ids : Cardinality({j \in ids : Before(j, k)}) = p - 1]

estimateEloPairTarget(m) ==
    IF m <= 1 THEN 0
    ELSE LET h == CeilLog2(m) IN Max(m - 1, (3 * m * h + 1) \div 2)   \* round(1.5*m*h)

Intensities == {"fast", "balanced", "accurate"}
\* multiplier * 10 and kFactor of an intensity
Multiplier10(int) == IF int = "fast" THEN 6 ELSE IF int = "accurate" THEN 15 ELSE 10
KFactorOf(int) == IF int = "fast" THEN 40 ELSE IF int = "accurate" THEN 24 ELSE 32

\* the pairs (x[i], x[i+1]) of one cycle over the ids 1..m.  seededShuffle
\* calls seededRandom() without its seed, so every cycle (and the shuffle that
\* produced items) is the same permutation of state.data: in the order of
\* items, which numbers the ids, each cycle is (1,2), (2,3), ..., (m-1,m).
CyclePairs(m) == [i \in 1..(IF m > 1 THEN m - 1 ELSE 0) |-> <<i, i + 1>>]

RECURSIVE Cycles(_, _)
Cycles(m, c) == IF c = 0 THEN <<>> ELSE CyclePairs(m) \o Cycles(m, c - 1)

\* ---- initElo ------------------------------------------------------------
initElo(m, cnt) ==
    LET basePairs == estimateEloPairTarget(cnt)
        int == m.s.eloIntensity
        extra == Max(0, ((Multiplier10(int) - 10) * basePairs + 5) \div 10)
        cycles == Max(2, CeilLog2(Max(2, cnt)))
        e == [ratings |-> [k \in 1..cnt |-> 1000 * RUnit],
              kFactor |-> KFactorOf(int),
              pairsDone |-> 0,
              totalPairs |-> basePairs + extra,
              queue |-> Cycles(cnt, cycles),
              history |-> [k \in 1..cnt |-> <<1000>>]]
    IN  pushUndoSnapshot(
            [m EXCEPT !.s.mode = "elo", !.s.active = TRUE, !.s.result = <<>>,
                      !.s.stack = <<>>, !.s.cache = EmptyMap, !.s.ties = {},
                      !.s.undo = <<>>, !.s.elo = <<e>>,
                      !.s.totalComparisons = e.totalPairs,
                      !.al = NoAlias, !.e = e, !.live = TRUE])

\* ---- continueElo --------------------------------------------------------
\* a write to the driver's elo object; it is state.sorter.elo while live
SetElo(m, e1) == [m EXCEPT !.e = e1, !.s.elo = IF m.live THEN <<e1>> ELSE @]

\* nextPair when the queue is empty: the adjacent pair of the sorted ids with
\* the smallest rating gap (the first one on equal gaps), <<>> if there is none
ClosestPair(ratings) ==
    LET ids == SortedByRating(ratings)
        Abs(x) == IF x < 0 THEN -x ELSE x
        Diff(i) == Abs(ratings[ids[i]] - ratings[ids[i + 1]])
        Cand == 1..(Len(ids) - 1)
    IN  IF Cand = {} THEN <<>>
        ELSE LET i == CHOOSE i \in Cand :
                          /\ \A j \in Cand : Diff(i) <= Diff(j)
                          /\ \A j \in Cand : j < i => Diff(j) > Diff(i)
             IN  <<ids[i], ids[i + 1]>>

\* "Finish: convert ratings to sorted list"
FinishElo(m) ==
    [m |-> [m EXCEPT !.s.active = FALSE,
                     !.s.result = <<SortedByRating(m.e.ratings)>>,
                     !.s.mode = "elo"],
     pc |-> "done", pend |-> <<>>]

\* The loop of continueElo from the top of `while (elo.pairsDone < total)` to
\* the next `await prefer(a, b)`: pc "ask" when the user is asked, "hit" when
\* prefer returns the cached value of the pair.
RECURSIVE EloLoop(_)
EloLoop(m) ==
    IF ~(m.e.pairsDone < m.e.totalPairs) THEN FinishElo(m)
    ELSE LET fromQueue == Len(m.e.queue) > 0
             pairIds == IF fromQueue THEN Head(m.e.queue) ELSE ClosestPair(m.e.ratings)
             m1 == IF fromQueue THEN SetElo(m, [m.e EXCEPT !.queue = Tail(@)]) ELSE m
         IN  IF pairIds = <<>> THEN FinishElo(m1)
             ELSE IF pairIds[1] = pairIds[2] THEN EloLoop(m1)
             ELSE LET m2 == pushUndoSnapshot(m1)
                  IN  [m |-> m2,
                       pc |-> IF keyFor(pairIds[1], pairIds[2]) \in DOMAIN m2.s.cache
                              THEN "hit" ELSE "ask",
                       pend |-> pairIds]

PushCapped(h, v) == LET w == Append(h, v) IN IF Len(w) > 10 THEN Tail(w) ELSE w

\* EloApply scoring a tie as a win of a
EloApplyTieAsWin(m, a, b, res) ==
    LET e == m.e
        ra == e.ratings[a]
        rb == e.ratings[b]
        Ea == eloExpected(ra, rb)
        Eb == RUnit - Ea
        k == e.kFactor
        Sa == IF res >= 0 THEN RUnit ELSE 0
        Sb == IF res < 0 THEN RUnit ELSE 0
        na == eloUpdate(ra, Sa, Ea, k)
        nb == eloUpdate(rb, Sb, Eb, k)
        r1 == [e.ratings EXCEPT ![a] = na, ![b] = nb]
        h1 == [e.history EXCEPT ![a] = PushCapped(@, RoundRating(na)),
                                ![b] = PushCapped(@, RoundRating(nb))]
        done1 == e.pairsDone + 1
        ids == SortedByRating(r1)
        mid == Len(ids) \div 2
        lo == ids[Max(0, mid - 1) + 1]
        hi == ids[Min(Len(ids) - 1, mid + 1) + 1]
        q1 == IF done1 % 7 = 0 /\ lo # hi THEN Append(e.queue, <<lo, hi>>) ELSE e.queue
    IN  SetElo(m, [e EXCEPT !.ratings = r1, !.history = h1, !.pairsDone = done1,
                            !.queue = q1])

\* lines 699-720: the rating update for the judged pair (a, b) with result res
EloApply(m, a, b, res) ==
    LET e == m.e
        ra == e.ratings[a]
        rb == e.ratings[b]
        Ea == eloExpected(ra, rb)
        Eb == RUnit - Ea
        k == e.kFactor
        isTie == res = 0
        Sa == IF isTie THEN RUnit \div 2 ELSE IF res > 0 THEN RUnit ELSE 0
        Sb == IF isTie THEN RUnit \div 2 ELSE IF res < 0 THEN RUnit ELSE 0
        na == eloUpdate(ra, Sa, Ea, k)
        nb == eloUpdate(rb, Sb, Eb, k)
        r1 == [e.ratings EXCEPT ![a] = na, ![b] = nb]
        h1 == [e.history EXCEPT ![a] = PushCapped(@, RoundRating(na)),
                                ![b] = PushCapped(@, RoundRating(nb))]
        done1 == e.pairsDone + 1
        ids == SortedByRating(r1)
        mid == Len(ids) \div 2
        lo == ids[Max(0, mid - 1) + 1]
        hi == ids[Min(Len(ids) - 1, mid + 1) + 1]
        q1 == IF done1 % 7 = 0 /\ lo # hi THEN Append(e.queue, <<lo, hi>>) ELSE e.queue
    IN  SetElo(m, [e EXCEPT !.ratings = r1, !.history = h1, !.pairsDone = done1,
                            !.queue = q1])

\* the record of that update kept in lastUpd
UpdOf(m, a, b, res) ==
    <<[a |-> a, b |-> b, res |-> res, ra |-> m.e.ratings[a], rb |-> m.e.ratings[b],
       k |-> m.e.kFactor]>>

\* ResumeElo whose Skip does not push the pair back on the queue
ResumeEloSkipDrops(m, a, b, o) ==
    IF o = "Back" THEN EloLoop(restoreFromUndo(m).m)
    ELSE IF o = "Skip" THEN EloLoop(m)
    ELSE EloLoop(EloApply(m, a, b, ValOf(o)))

\* the continuation of continueElo after `await prefer(a, b)` returned o
ResumeElo(m, a, b, o) ==
    IF o = "Back" THEN EloLoop(restoreFromUndo(m).m)
    ELSE IF o = "Skip" THEN EloLoop(SetElo(m, [m.e EXCEPT !.queue = Append(@, <<a, b>>)]))
    ELSE EloLoop(EloApply(m, a, b, ValOf(o)))

\* ---- the ELO driver as a state machine ----------------------------------
MaxNElo == 4           \* candidates of an ELO run: 1..MaxNElo
MaxAnswersElo == 5     \* oracle answers explored in one ELO run

InitElo ==
    /\ n \in 1..MaxNElo
    /\ \E md \in {"merge", "elo"}, int \in Intensities :
          sorter = [defaultState EXCEPT !.mode = md, !.eloIntensity = int]
    /\ alias = NoAlias
    /\ pc = "idle"
    /\ pend = <<>>
    /\ hist = <<>>
    /\ elo = EloDefault
    /\ eloLive = FALSE
    /\ lastUpd = <<>>
    /\ saved = {}
    /\ SessionUnused
    /\ PickerUnused
    /\ CutoffsUnused

\* startSortingElo: state = defaultState(); initElo(items); continueElo()
startSortingElo ==
    /\ pc = "idle"
    /\ Install(EloLoop(initElo(FreshMachine, n)))
    /\ tiers' = NoTiers
    /\ UNCHANGED <<n, hist, lastUpd, uvars, pvars, cutState, screen, cops>>

\* btn-resume in ELO mode with no queue left: initElo on the loaded state
\* (its eloIntensity is the user's choice), then continueElo()
resumeElo ==
    /\ pc = "idle"
    /\ sorter.mode = "elo"
    /\ Len(sorter.elo) = 0 \/ Len(sorter.elo[1].queue) = 0
    /\ Install(EloLoop(initElo(Machine, n)))
    /\ UNCHANGED <<n, hist, lastUpd, uvars, pvars, cvars>>

\* the oracle answers the pending prefer(a, b)
AnswerElo(o) ==
    /\ pc = "ask"
    /\ Len(hist) < MaxAnswersElo
    /\ LET m == finish(Machine, pend[1], pend[2], o)
       IN  /\ Install(ResumeElo(m, pend[1], pend[2], o))
           /\ lastUpd' = IF o \in Judgments THEN UpdOf(m, pend[1], pend[2], ValOf(o))
                         ELSE lastUpd
    /\ hist' = Append(hist, o)
    /\ UNCHANGED <<n, uvars, pvars, cvars>>

\* prefer(a, b) found the pair in the cache and resolves with the cached value
CachedElo ==
    /\ pc = "hit"
    /\ LET res == sorter.cache[keyFor(pend[1], pend[2])]
       IN  /\ Install(EloLoop(EloApply(Machine, pend[1], pend[2], res)))
           /\ lastUpd' = UpdOf(Machine, pend[1], pend[2], res)
    /\ UNCHANGED <<n, hist, uvars, pvars, cvars>>

NextElo ==
    \/ startSortingElo
    \/ resumeElo
    \/ \E o \in Outcomes : AnswerElo(o)
    \/ CachedElo

SpecElo == InitElo /\ [][NextElo]_vars

\* ---- both drivers: a session started in either mode ---------------------
InitSorter ==
    /\ n \in 1..MaxN
    /\ \E md \in {"merge", "elo"}, int \in Intensities :
          sorter = [defaultState EXCEPT !.mode = md, !.eloIntensity = int]
    /\ alias = NoAlias
    /\ pc = "idle"
    /\ pend = <<>>
    /\ hist = <<>>
    /\ elo = EloDefault
    /\ eloLive = FALSE
    /\ lastUpd = <<>>
    /\ saved = {}
    /\ SessionUnused
    /\ PickerUnused
    /\ CutoffsUnused

NextSorter ==
    \/ startSorting
    \/ sorter.mode = "merge" /\ \E o \in Outcomes : Answer(o)
    \/ startSortingElo
    \/ resumeElo
    \/ sorter.mode = "elo" /\ \E o \in Outcomes : AnswerElo(o)
    \/ sorter.mode = "elo" /\ CachedElo

SpecSorter == InitSorter /\ [][NextSorter]_vars

\* ---- initSort and initElo on any argument --------------------------------
\* The JS value passed as `items`: an array, or a value Array.isArray rejects
\* (null, a string, an array-like object); elems are its entries, so
\* items.length is Len(elems).
ItemsArgs ==
    {[kind |-> k, elems |-> e] :
        k \in {"array", "null", "string", "object"},
        e \in {<<>>, [j \in 1..n |-> j]}}

\* `!Array.isArray(items) || items.length === 0`
InvalidItems(items) == items.kind # "array" \/ Len(items.elems) = 0

\* the guard testing only `items.length === 0`
initSortCallAnyLength(m, items) ==
    IF Len(items.elems) = 0
    THEN [threw |-> "No items to sort", m |-> m]
    ELSE [threw |-> "", m |-> initSort(m, items.elems)]

\* initSort(items) from its first line: the exception it throws ("" for none)
\* and the machine after the call
initSortCall(m, items) ==
    IF InvalidItems(items)
    THEN [threw |-> "No items to sort", m |-> m]
    ELSE [threw |-> "", m |-> initSort(m, items.elems)]

initEloCall(m, items) ==
    IF InvalidItems(items)
    THEN [threw |-> "No items to sort", m |-> m]
    ELSE [threw |-> "", m |-> initElo([m EXCEPT !.s.mode = "elo"], Len(items.elems))]

\* a caller invokes initSort(items); no driver loop is started by the call
callInitSort(items) ==
    /\ InvalidItems(items) \/ pc = "idle"
    /\ LET r == initSortCall(Machine, items)
       IN  /\ err' = r.threw
           /\ Install([m |-> r.m, pc |-> pc, pend |-> pend])
    /\ UNCHANGED <<n, hist, lastUpd, parked, resumeShown, uiEvents, pvars, cvars>>

callInitElo(items) ==
    /\ InvalidItems(items) \/ pc = "idle"
    /\ LET r == initEloCall(Machine, items)
       IN  /\ err' = r.threw
           /\ Install([m |-> r.m, pc |-> pc, pend |-> pend])
    /\ UNCHANGED <<n, hist, lastUpd, parked, resumeShown, uiEvents, pvars, cvars>>

MaxInitN == 3          \* candidates of the runs the calls are made in
MaxInitAnswers == 2    \* oracle answers explored in such a run

InitInit ==
    /\ n \in 1..MaxInitN
    /\ \E int \in Intensities : sorter = [defaultState EXCEPT !.eloIntensity = int]
    /\ alias = NoAlias
    /\ pc = "idle"
    /\ pend = <<>>
    /\ hist = <<>>
    /\ elo = EloDefault
    /\ eloLive = FALSE
    /\ lastUpd = <<>>
    /\ saved = {}
    /\ SessionUnused
    /\ PickerUnused
    /\ CutoffsUnused

\* the oracle's answer in such a run
AnswerInit(o) ==
    /\ pc = "ask"
    /\ Len(hist) < MaxInitAnswers
    /\ Install(Resume(finish(Machine, pend[1], pend[2], o), o))
    /\ hist' = Append(hist, o)
    /\ UNCHANGED <<n, lastUpd, uvars, pvars, cvars>>

NextInit ==
    \/ startSorting
    \/ \E o \in Outcomes : AnswerInit(o)
    \/ \E items \in ItemsArgs : callInitSort(items)
    \/ \E items \in ItemsArgs : callInitElo(items)

SpecInit == InitInit /\ [][NextInit]_vars

\* ---- a browser session of the merge sorter --------------------------------
MaxSessionN == 2       \* candidates loaded in a session: 1..MaxSessionN
MaxUIEvents == 5       \* Start, Cancel, Resume clicks and reloads explored
MaxSessionControls == 1  \* Skip and Back answers explored in one run of a session

\* fixIdList of sanitizeState: the entries that are ids of state.data
fixIdList(list, ids) == SelectSeq(list, LAMBDA x : x \in ids)

\* sanitizeState on the parsed blob, for a blob JSON.stringify(state) wrote:
\* cache, ties, undo and result are kept, the frame's lists are filtered to
\* the ids of data and its indices clamped
sanitizeState(s, ids) ==
    IF Len(s.stack) = 1 /\ ids # {}
    THEN LET f == s.stack[1]
             arr1 == fixIdList(f.arr, ids)
             L1 == fixIdList(f.L, ids)
             R1 == fixIdList(f.R, ids)
             out1 == fixIdList(f.out, ids)
         IN  [s EXCEPT !.stack = <<[arr |-> arr1, L |-> L1, R |-> R1, out |-> out1,
                                    li |-> Max(0, Min(f.li, Len(L1))),
                                    rj |-> Max(0, Min(f.rj, Len(R1))),
                                    i |-> Max(0, Min(f.i, Len(arr1))),
                                    width |-> Max(1, f.width)]>>]
    ELSE s

\* `let state = loadState() || defaultState()`: the machine of a page loaded
\* from the blob of state.sorter s; no object of it is shared with a snapshot
loadState(s, ids) ==
    [s |-> sanitizeState(s, ids), al |-> NoAlias, e |-> EloDefault, live |-> FALSE,
     sv |-> {}]

\* hasProgress of applyStateOnLoad
hasProgress(s) == Len(s.stack) = 1 \/ DOMAIN s.cache # {} \/ Len(s.result) = 1

\* the body of the #btn-resume handler
btnResumeBody(m, cnt) ==
    IF m.s.mode = "elo"
    THEN EloLoop(IF Len(m.s.elo) = 0 \/ Len(m.s.elo[1].queue) = 0
                 THEN initElo(m, cnt) ELSE m)
    ELSE continueSort(IF Len(m.s.stack) = 0
                      THEN initSort(m, [k \in 1..cnt |-> k]) ELSE m)

InitSession ==
    /\ n \in 1..MaxSessionN
    /\ sorter = defaultState
    /\ alias = NoAlias
    /\ pc = "idle"
    /\ pend = <<>>
    /\ hist = <<>>
    /\ elo = EloDefault
    /\ eloLive = FALSE
    /\ lastUpd = <<>>
    /\ saved = {}
    /\ SessionUnused
    /\ PickerUnused
    /\ CutoffsUnused

\* a prefer() request left unresolved by the loop that made it stays so when
\* another loop is started
Park == IF pc = "ask" THEN Append(parked, pend) ELSE parked

\* click on #btn-start: startSorting().  `await loadData()` is taken to
\* resolve before the next UI event.
btnStart ==
    /\ screen = "welcome"
    /\ uiEvents < MaxUIEvents
    /\ LET r == continueSort(initSort(FreshMachine, [k \in 1..n |-> k]))
       IN  /\ Install(r)
           /\ screen' = IF r.pc = "done" THEN "results" ELSE "sorter"
    /\ parked' = Park
    /\ hist' = <<>>
    /\ tiers' = NoTiers
    /\ err' = ""
    /\ uiEvents' = uiEvents + 1
    /\ UNCHANGED <<n, lastUpd, resumeShown, pvars, cutState, cops>>

\* click on #btn-cancel-sort: showScreen('screen-welcome') and nothing else
btnCancelSort ==
    /\ screen = "sorter"
    /\ uiEvents < MaxUIEvents
    /\ screen' = "welcome"
    /\ uiEvents' = uiEvents + 1
    /\ UNCHANGED <<svars, err, parked, resumeShown, pvars, cutState, tiers, cops>>

\* click on #btn-resume
btnResume ==
    /\ screen = "welcome"
    /\ resumeShown
    /\ uiEvents < MaxUIEvents
    /\ LET r == btnResumeBody(Machine, n)
       IN  /\ Install(r)
           /\ screen' = IF r.pc = "done" THEN "results" ELSE "sorter"
    /\ parked' = Park
    /\ err' = ""
    /\ uiEvents' = uiEvents + 1
    /\ UNCHANGED <<n, hist, lastUpd, resumeShown, pvars, cutState, tiers, cops>>

\* the page is reloaded once the debounced save has written the state: every
\* suspended loop is gone, state is loadState() of the blob, and
\* applyStateOnLoad shows the welcome or the results screen
reload ==
    /\ uiEvents < MaxUIEvents
    /\ LET m == loadState(sorter, 1..n)
       IN  /\ Install([m |-> m, pc |-> "idle", pend |-> <<>>])
           /\ screen' = IF Len(m.s.result) = 1 THEN "results" ELSE "welcome"
           /\ resumeShown' = (hasProgress(m.s) /\ Len(m.s.result) = 0)
    /\ parked' = <<>>
    /\ err' = ""
    /\ uiEvents' = uiEvents + 1
    /\ UNCHANGED <<n, hist, lastUpd, pvars, cutState, tiers, cops>>

\* click on one of the five choice buttons: their onclick is the finish of
\* the prefer() called last
choose(o) ==
    /\ screen = "sorter"
    /\ pc = "ask"
    /\ o \in {"Skip", "Back"} => Controls(hist) < MaxSessionControls
    /\ LET r == Resume(finish(Machine, pend[1], pend[2], o), o)
       IN  /\ Install(r)
           /\ screen' = IF r.pc = "done" THEN "results" ELSE screen
    /\ hist' = Append(hist, o)
    /\ UNCHANGED <<n, lastUpd, uvars, pvars, cutState, tiers, cops>>

\* ArrowLeft, t or ArrowRight on the document, whatever screen is shown.
\* Every unresolved prefer() has its own keydown listener; the key is
\* followed here while one request is pending.
keydown(o) ==
    /\ pc = "ask"
    /\ parked = <<>>
    /\ o \in Judgments
    /\ LET r == Resume(finish(Machine, pend[1], pend[2], o), o)
       IN  /\ Install(r)
           /\ screen' = IF r.pc = "done" THEN "results" ELSE screen
    /\ hist' = Append(hist, o)
    /\ UNCHANGED <<n, lastUpd, uvars, pvars, cutState, tiers, cops>>

NextSession ==
    \/ btnStart
    \/ btnCancelSort
    \/ btnResume
    \/ reload
    \/ \E o \in Outcomes : choose(o)
    \/ \E o \in Judgments : keydown(o)

SpecSession == InitSession /\ [][NextSession]_vars

\* ---- a merge run whose undo stack is at the cap ----------------------------
UndoMargin == 1        \* the run starts with MAX_UNDO - UndoMargin .. MAX_UNDO snapshots
MaxCapAnswers == 3     \* oracle answers explored beyond a full stack

\* The request reached on candidates [1,2,3] by the answers Left, Skip, Skip,
\* ... (k - 3 Skips): after Left the frame is L = [1,2], R = [3], and every
\* Skip rotates L and pushes one more snapshot, so the stack is initSort's
\* snapshot, the snapshot of the request 1|2, and then the snapshots of the
\* two rotations of L in turn.
\* the run r, suspended at a request, after the oracle answers o
Reply(r, o) == Resume(finish(r.m, r.pend[1], r.pend[2], o), o)

\* the request after Left (three snapshots), and after Left, Skip (four)
CapRunLeft == Reply(continueSort(initSort(FreshMachine, <<1, 2, 3>>)), "Left")

CapRunSkip == Reply(CapRunLeft, "Skip")

\* the stack of k snapshots: those of the first two requests, then the two
\* rotations of L alternating
CapStack(k, odd, even) ==
    [j \in 1..k |-> IF j <= 2 THEN odd[j] ELSE IF j % 2 = 1 THEN odd[3] ELSE even[4]]

NearCapRun(k) ==
    [(IF k % 2 = 1 THEN CapRunLeft ELSE CapRunSkip)
        EXCEPT !.m.s.undo = CapStack(k, CapRunLeft.m.s.undo, CapRunSkip.m.s.undo)]

InitUndo ==
    /\ n = 3
    /\ \E k \in (MAX_UNDO - UndoMargin)..MAX_UNDO :
       \E r \in {NearCapRun(k)} :
          /\ sorter = r.m.s
          /\ alias = r.m.al
          /\ saved = r.m.sv
          /\ pend = r.pend
          /\ hist = [j \in 1..(k - 2) |-> IF j = 1 THEN "Left" ELSE "Skip"]
    /\ pc = "ask"
    /\ elo = EloDefault
    /\ eloLive = FALSE
    /\ lastUpd = <<>>
    /\ SessionUnused
    /\ PickerUnused
    /\ CutoffsUnused

\* the oracle answers the pending prefer(a, b) of that run
AnswerAtCap(o) ==
    /\ pc = "ask"
    /\ Len(hist) < MAX_UNDO - 2 + MaxCapAnswers
    /\ Install(Resume(finish(Machine, pend[1], pend[2], o), o))
    /\ hist' = Append(hist, o)
    /\ UNCHANGED <<n, lastUpd, uvars, pvars, cvars>>

NextUndo == \E o \in Outcomes : AnswerAtCap(o)

SpecUndo == InitUndo /\ [][NextUndo]_vars

\* ---- a merge run whose oracle never answers Back -----------------------------
LiveMargin == 6        \* the run starts with MAX_UNDO - LiveMargin .. MAX_UNDO snapshots

\* The answers are not recorded (hist stays empty): a run that comes back to
\* a state.sorter it has been in is then a cycle of states.
InitLive ==
    /\ n = 3
    /\ \E k \in (MAX_UNDO - LiveMargin)..MAX_UNDO :
       \E r \in {NearCapRun(k)} :
          /\ sorter = r.m.s
          /\ alias = r.m.al
          /\ saved = r.m.sv
          /\ pend = r.pend
    /\ hist = <<>>
    /\ pc = "ask"
    /\ elo = EloDefault
    /\ eloLive = FALSE
    /\ lastUpd = <<>>
    /\ SessionUnused
    /\ PickerUnused
    /\ CutoffsUnused

AnswerLive(o) ==
    /\ pc = "ask"
    /\ \E r \in {Reply([m |-> Machine, pend |-> pend], o)} : Install(r)
    /\ UNCHANGED <<n, hist, lastUpd, uvars, pvars, cvars>>

NextLive == \E o \in Outcomes \ {"Back"} : AnswerLive(o)

\* the oracle answers every request: prefer()'s promise is always resolved
SpecLive == InitLive /\ [][NextLive]_vars /\ WF_vars(NextLive)

\* ---- the picker screen as a state machine -------------------------------
MaxPickerN == 3        \* candidates given to the picker: 1..MaxPickerN
MaxPickerOps == 4      \* picker operations explored after initPickerMode

SorterUnused ==
    /\ n = 0
    /\ sorter = defaultState
    /\ alias = NoAlias
    /\ pc = "idle"
    /\ pend = <<>>
    /\ hist = <<>>
    /\ elo = EloDefault
    /\ eloLive = FALSE
    /\ lastUpd = <<>>
    /\ saved = {}

\* new PresidentialPicker(data)
InitPicker ==
    /\ SorterUnused
    /\ SessionUnused
    /\ CutoffsUnused
    /\ pn \in 1..MaxPickerN
    /\ picker = NewPicker
    /\ pphase = "new"
    /\ plast = <<>>
    /\ pops = 0

\* the picker is left in q by the operation op; PickerUI.update follows
Shown(op, pickedIds, q) ==
    /\ picker' \in update(q, pn)
    /\ plast' = <<[op |-> op, picked |-> pickedIds, before |-> getStateSnapshot(picker)]>>

\* initPickerMode with nothing saved: initialize(), then PickerUI.initialize
initPickerMode ==
    /\ pphase = "new"
    /\ pphase' = "run"
    /\ \E q \in initialize(picker, pn) : picker' \in update(q, pn)
    /\ UNCHANGED <<pn, plast, pops, svars, uvars, cvars>>

\* the selections PickerUI.pick passes on: some but not all of the batch, in
\* the order they were clicked
Selections(batch) ==
    UNION {{sel \in [1..k -> Range(batch)] : \A i, j \in 1..k : sel[i] = sel[j] => i = j}
           : k \in 1..(Len(batch) - 1)}

PickerUI_pick(pickedIds) ==
    /\ pphase = "run"
    /\ pops < MaxPickerOps
    /\ pickedIds \in Selections(picker.evaluating)
    /\ \E q \in pick(picker, pickedIds) : Shown("pick", pickedIds, q)
    /\ pops' = pops + 1
    /\ UNCHANGED <<pn, pphase, svars, uvars, cvars>>

PickerUI_pass ==
    /\ pphase = "run"
    /\ pops < MaxPickerOps
    /\ \E q \in pass(picker) : Shown("pass", <<>>, q)
    /\ pops' = pops + 1
    /\ UNCHANGED <<pn, pphase, svars, uvars, cvars>>

PickerUI_undo ==
    /\ pphase = "run"
    /\ pops < MaxPickerOps
    /\ canUndo(picker)
    /\ Shown("undo", <<>>, undo(picker))
    /\ pops' = pops + 1
    /\ UNCHANGED <<pn, pphase, svars, uvars, cvars>>

PickerUI_redo ==
    /\ pphase = "run"
    /\ pops < MaxPickerOps
    /\ canRedo(picker)
    /\ LET r == redo(picker)
       IN  IF r.threw
           THEN /\ picker' = r.p
                /\ plast' = <<[op |-> "redo", picked |-> <<>>,
                               before |-> getStateSnapshot(picker)]>>
           ELSE Shown("redo", <<>>, r.p)
    /\ pops' = pops + 1
    /\ UNCHANGED <<pn, pphase, svars, uvars, cvars>>

NextPicker ==
    \/ initPickerMode
    \/ \E pickedIds \in Selections(picker.evaluating) : PickerUI_pick(pickedIds)
    \/ PickerUI_pass
    \/ PickerUI_undo
    \/ PickerUI_redo

SpecPicker == InitPicker /\ [][NextPicker]_vars

\* ---- the cutoffs wizard as a state machine ------------------------------
MaxRanked == 3         \* ids of the ranking handed to the wizard: 1..MaxRanked
MaxCutOps == 10        \* clicks on the wizard's buttons explored

\* the integer that Number(value||0)|0 makes of the text of #cutoffs-count
CountInputs == -1..(MaxRanked + 1)

\* a session loaded with a finished ranking, on the results screen
InitCutoffs ==
    /\ n \in 1..MaxRanked
    /\ sorter \in {[defaultState EXCEPT !.result = r] : r \in Shuffles([k \in 1..n |-> k])}
    /\ alias = NoAlias
    /\ pc = "done"
    /\ pend = <<>>
    /\ hist = <<>>
    /\ elo = EloDefault
    /\ eloLive = FALSE
    /\ lastUpd = <<>>
    /\ saved = {}
    /\ SessionUnused
    /\ PickerUnused
    /\ cutState = <<>>
    /\ tiers = NoTiers
    /\ screen = "results"
    /\ cops = 0

\* #btn-cutoffs
btnCutoffs ==
    /\ cops < MaxCutOps
    /\ cops' = cops + 1
    /\ screen = "results"
    /\ IF Len(sorter.result) = 0
       THEN UNCHANGED <<cutState, screen>>
       ELSE /\ cutState' = <<startCutoffs(sorter.result)>>
            /\ screen' = "cutoffs"
    /\ UNCHANGED <<tiers, svars, uvars, pvars>>

\* #btn-cutoffs-next, shown before the last tier
btnCutoffsNext(value) ==
    /\ cops < MaxCutOps
    /\ cops' = cops + 1
    /\ screen = "cutoffs"
    /\ cutState[1].pos < Len(CUTOFF_TIERS) - 1
    /\ cutState' = <<nextCut(cutState[1], value)>>
    /\ UNCHANGED <<tiers, screen, svars, uvars, pvars>>

\* #btn-cutoffs-prev, enabled after the first tier
btnCutoffsPrev ==
    /\ cops < MaxCutOps
    /\ cops' = cops + 1
    /\ screen = "cutoffs"
    /\ cutState[1].pos # 0
    /\ cutState' = <<prevCut(cutState[1])>>
    /\ UNCHANGED <<tiers, screen, svars, uvars, pvars>>

\* #btn-cutoffs-apply, shown at the last tier
btnCutoffsApply(value) ==
    /\ cops < MaxCutOps
    /\ cops' = cops + 1
    /\ screen = "cutoffs"
    /\ cutState[1].pos >= Len(CUTOFF_TIERS) - 1
    /\ cutState' = <<applyCut(cutState[1], value)>>
    /\ tiers' = applyCutoffsToTiers(cutState'[1])
    /\ screen' = "tier"
    /\ UNCHANGED <<svars, uvars, pvars>>

\* #btn-cutoffs-cancel
btnCutoffsCancel ==
    /\ cops < MaxCutOps
    /\ cops' = cops + 1
    /\ screen = "cutoffs"
    /\ cutState' = <<>>
    /\ screen' = "results"
    /\ UNCHANGED <<tiers, svars, uvars, pvars>>

NextCutoffs ==
    \/ btnCutoffs
    \/ \E value \in CountInputs : btnCutoffsNext(value)
    \/ btnCutoffsPrev
    \/ \E value \in CountInputs : btnCutoffsApply(value)
    \/ btnCutoffsCancel

SpecCutoffs == InitCutoffs /\ [][NextCutoffs]_vars

\* ---- properties of the cutoffs wizard -----------------------------------
RECURSIVE ConcatTiers(_, _)
ConcatTiers(ts, k) ==
    IF k > Len(CUTOFF_TIERS) THEN ts["Unplaced"]
    ELSE ts[CUTOFF_TIERS[k]] \o ConcatTiers(ts, k + 1)

\* C6: on the tier board that Apply brings up, the tiers SS, S, A, B, C, D, F
\* and Unplaced, one after the other, are the ranked id list in its order,
\* whatever counts were entered and however Next and Previous were mixed
C6_TiersAreTheRanking ==
    screen = "tier" => ConcatTiers(tiers, 1) = sorter.result

\* Apply after more clicks than the straight way through the tiers takes (a
\* Previous or a Cancel came between), with ids in two tiers and Unplaced
C6_Witness ==
    /\ screen = "tier"
    /\ Len(sorter.result) = MaxRanked
    /\ Cardinality({t \in Range(CUTOFF_TIERS) : tiers[t] # <<>>}) >= 2
    /\ tiers["Unplaced"] # <<>>
    /\ cops > Len(CUTOFF_TIERS) + 1

\* ---- properties of the picker -------------------------------------------
Placed(p) ==
    p.current \o p.survived \o p.evaluating \o EntryIds(p.eliminated) \o p.favorites

\* C5: once the picker has been initialised, every candidate id is in exactly
\* one of current, survived, evaluating, eliminated and favorites, whatever
\* picks, passes, undos and redos have followed: none twice, none dropped
C5_Partition ==
    pphase = "run" => IsPermutation(Placed(picker), pn)

\* the last operation was a pick of exactly one id out of a batch of two that
\* held the only two ids outside favorites
FinalPairPicked ==
    /\ plast # <<>>
    /\ plast[1].op = "pick"
    /\ Len(plast[1].picked) = 1
    /\ Len(plast[1].before.evaluating) = 2
    /\ Range(plast[1].before.evaluating) = (1..pn) \ Range(plast[1].before.favorites)

\* C9: when the only two ids outside favorites are the batch and one of them
\* is picked, favorites grows by the picked id and then the other one, the
\* four other collections are empty and isComplete() holds; with two
\* candidates in total that makes favorites the picked id, then the other
C9_FinalPair ==
    FinalPairPicked =>
        LET before == plast[1].before
            picked == plast[1].picked[1]
            other == NotIn(before.evaluating, plast[1].picked)[1]
        IN  /\ picker.favorites = before.favorites \o <<picked, other>>
            /\ picker.current = <<>> /\ picker.survived = <<>>
            /\ picker.evaluating = <<>> /\ picker.eliminated = <<>>
            /\ isComplete(picker, pn)
            /\ pn = 2 => picker.favorites = <<picked, other>>

C9_Witness ==
    /\ FinalPairPicked
    /\ pn >= 3
    /\ Len(plast[1].before.favorites) = pn - 2
    /\ picker.favorites = plast[1].before.favorites
                           \o plast[1].picked
                           \o NotIn(plast[1].before.evaluating, plast[1].picked)

\* ---- properties of the merge driver -------------------------------------


\* C1: whenever continueSort has reached completion, whatever the oracle
\* answered (Left, Right, Tie, Skip, Back), state.sorter.result is a
\* permutation of the input ids: none duplicated, none omitted.
C1_ResultIsPermutation ==
    pc = "done" => Len(sorter.result) = 1 /\ IsPermutation(sorter.result[1], n)

C1_Witness ==
    /\ pc = "done" /\ n = MaxN
    /\ \E j, k \in 1..Len(hist) : hist[j] = "Skip" /\ hist[k] = "Back"
    /\ IsPermutation(sorter.result[1], n)

\* C2: the number of canonical unordered pairs in the comparison cache never
\* exceeds totalComparisonUpperBound(n) = n*ceil(log2 n) - (2^ceil(log2 n) - 1).
C2_JudgmentsWithinBound ==
    countUniqueCachePairs(sorter.cache) <= totalComparisonUpperBound(n)

\* the frame in which the first judgment of a run on m candidates is requested
FirstFrame(m) ==
    continueSort(initSort(FreshMachine, [k \in 1..m |-> k])).m.s.stack

\* k requests, of which the first k-1 were answered by a judgment, followed by k-1 Backs
IsUndoRoundTrip(h) ==
    \E k \in 0..Len(h) :
        /\ Len(h) = 2 * k
        /\ \A j \in 1..k : h[j] \in Judgments /\ h[k + j] = "Back"

\* C4: after k judgment requests (k-1 of them answered) and then k-1 Backs
\* the merge frame equals the frame in which the first judgment was
\* requested, for every k >= 1.
C4_UndoRoundTrip ==
    (pc = "ask" /\ IsUndoRoundTrip(hist)) => sorter.stack = FirstFrame(n)

FirstThreeLeft ==
    n = 4 /\ Len(hist) >= 3 /\ \A k \in 1..3 : hist[k] = "Left"

\* C7 as stated: candidates [A,B,C,D] = <<1,2,3,4>>, judgments A>B, C>D and
\* A>C; the final ranking is [A,C,B,D] or [A,C,D,B].
C7_ScenarioAsStated ==
    (FirstThreeLeft /\ pc = "done")
        => sorter.result[1] \in {<<1, 3, 2, 4>>, <<1, 3, 4, 2>>}

\* C7 (amended): after A>B, C>D and A>C the merge asks B vs C; if C is
\* preferred it asks B vs D and the final ranking is [A,C,B,D] or [A,C,D,B]
\* by that outcome; if B is preferred to (or tied with) C the final ranking
\* is [A,B,C,D].
C7_Scenario ==
    FirstThreeLeft =>
        /\ Len(hist) = 3 => pc = "ask" /\ pend = <<2, 3>>
        /\ (Len(hist) = 4 /\ hist[4] = "Right") => pc = "ask" /\ pend = <<2, 4>>
        /\ pc = "done" =>
              sorter.result[1] =
                 IF hist[4] # "Right" THEN <<1, 2, 3, 4>>
                 ELSE IF hist[5] = "Right" THEN <<1, 3, 4, 2>> ELSE <<1, 3, 2, 4>>

C7_Witness ==
    /\ FirstThreeLeft /\ pc = "done"
    /\ hist = <<"Left", "Left", "Left", "Right", "Right">>
    /\ sorter.result[1] = <<1, 3, 4, 2>>

\* ---- properties of the comparison cache and the ELO driver --------------
CacheSymmetric(c, t) ==
    /\ \A k \in DOMAIN c :
          /\ c[k] \in {1, 0, -1}
          /\ keyFor(k[2], k[1]) \in DOMAIN c
          /\ c[keyFor(k[2], k[1])] = Invert(c[k])
    /\ \A k \in t : keyFor(k[2], k[1]) \in t

ControlAnswered == hist' # hist /\ hist'[Len(hist')] \in {"Skip", "Back"}

\* C3: in every reachable state of the merge and ELO drivers the cache holds
\* b|a with the inverse value (1 <-> -1, 0 <-> 0) for every key a|b, the tie
\* set holds a|b exactly when it holds b|a, and a Skip or Back answer stores
\* nothing: it adds no key to the cache or to the tie set.
C3_CacheSymmetry ==
    /\ [](CacheSymmetric(sorter.cache, sorter.ties))
    /\ [][ControlAnswered =>
             /\ DOMAIN sorter'.cache \subseteq DOMAIN sorter.cache
             /\ sorter'.ties \subseteq sorter.ties]_vars

C3_Witness ==
    /\ sorter.mode = "elo"
    /\ \E j, k \in 1..Len(hist) : hist[j] = "Skip" /\ hist[k] = "Back"
    /\ \E k \in DOMAIN sorter.cache : sorter.cache[k] = 1
    /\ sorter.ties # {}
    /\ CacheSymmetric(sorter.cache, sorter.ties)

\* C8: with 2 candidates both rated 1000 and K = 32, the judgment "A beats B"
\* has expected scores 0.5/0.5 and leaves A = 1016, B = 984.
C8_EloScenario ==
    (n = 2 /\ lastUpd = <<[a |-> 1, b |-> 2, res |-> 1, ra |-> 1000 * RUnit,
                          rb |-> 1000 * RUnit, k |-> 32]>>)
        => /\ eloExpected(lastUpd[1].ra, lastUpd[1].rb) = RUnit \div 2
           /\ elo.ratings[1] = 1016 * RUnit
           /\ elo.ratings[2] = 984 * RUnit

C8_Witness ==
    /\ n = 2 /\ hist = <<"Left">> /\ elo.pairsDone = 1
    /\ lastUpd # <<>> /\ lastUpd[1].res = 1 /\ lastUpd[1].k = 32
    /\ elo.ratings = <<1016 * RUnit, 984 * RUnit>>

\* C10: a Tie between two candidates whose pre-update ratings are equal
\* leaves both ratings unchanged, whatever the K factor.
C10_TieKeepsEqualRatings ==
    (lastUpd # <<>> /\ lastUpd[1].res = 0 /\ lastUpd[1].ra = lastUpd[1].rb)
        => /\ elo.ratings[lastUpd[1].a] = lastUpd[1].ra
           /\ elo.ratings[lastUpd[1].b] = lastUpd[1].rb

C10_Witness ==
    /\ lastUpd # <<>> /\ lastUpd[1].res = 0 /\ lastUpd[1].ra = lastUpd[1].rb
    /\ lastUpd[1].k = 24
    /\ elo.ratings[lastUpd[1].a] = elo.ratings[lastUpd[1].b]

\* ---- the merge frame ------------------------------------------------------
\* the frames held by the snapshots of the undo stack
SnapshotFrames ==
    {sorter.undo[k].stack[1] : k \in {j \in 1..Len(sorter.undo) : Len(sorter.undo[j].stack) = 1}}

\* the frames saveState() was called on during the last step
SavedFrames == {st[1] : st \in {x \in saved : Len(x) = 1}}

\* the frame of the suspended or idle driver, the one a debounced save writes
LiveFrames == {sorter.stack[1] : k \in 1..Len(sorter.stack)}

IndicesInRange(f) ==
    /\ 0 <= f.li /\ f.li <= Len(f.L)
    /\ 0 <= f.rj /\ f.rj <= Len(f.R)
    /\ f.width >= 1

\* C11 as stated: in every frame that is live at a suspension, stored in a
\* snapshot or handed to saveState (between blocks, after Skip or Back),
\* 0 <= li <= |L|, 0 <= rj <= |R|, 0 <= i <= |arr| and width >= 1.
C11_FrameInvariantAsStated ==
    \A f \in LiveFrames \cup SnapshotFrames \cup SavedFrames :
        IndicesInRange(f) /\ 0 <= f.i /\ f.i <= Len(f.arr)

\* C11 (amended): li, rj and width are in range in every such frame, and
\* 0 <= i <= |arr| in every frame live at a suspension or stored in a snapshot;
\* in a frame handed to saveState between blocks i has already been advanced
\* by 2*width and may pass the end of arr: 0 <= i < |arr| + 2*width.
C11_FrameInvariant ==
    /\ \A f \in LiveFrames \cup SnapshotFrames :
          IndicesInRange(f) /\ 0 <= f.i /\ f.i <= Len(f.arr)
    /\ \A f \in SavedFrames :
          IndicesInRange(f) /\ 0 <= f.i /\ f.i < Len(f.arr) + 2 * f.width

\* a run with a Skip and a Back behind it has just closed a block past the end of arr
C11_Witness ==
    /\ "Skip" \in Range(hist) /\ "Back" \in Range(hist)
    /\ \E f \in SavedFrames : f.i > Len(f.arr)
    /\ Len(sorter.undo) >= 2

\* C12: a run on a single candidate is complete as soon as it is started, its
\* ranking is that candidate, and no judgment was requested: no prefer() call
\* (no snapshot but initSort's, nothing pending, no answer) and an empty cache.
C12_SingleCandidate ==
    (n = 1 /\ pc # "idle") =>
        /\ pc = "done"
        /\ sorter.result = <<(<<1>>)>>
        /\ sorter.stack = <<>>
        /\ sorter.cache = EmptyMap
        /\ Len(sorter.undo) = 1
        /\ pend = <<>>
        /\ hist = <<>>

C12_Witness == n = 1 /\ pc = "done" /\ sorter.result = <<(<<1>>)>>

\* C13: a call of initSort or initElo with an empty or non-array list throws
\* 'No items to sort' and leaves the sorter state (mode, active, stack, cache,
\* ties, undo, result, elo and the rest of state.sorter) as it was.
C13_InvalidInputRejected ==
    [][\A items \in ItemsArgs :
          (InvalidItems(items) /\ (callInitSort(items) \/ callInitElo(items)))
              => (err' = "No items to sort" /\ sorter' = sorter)]_vars

\* the call was made, and rejected, in the middle of a run
C13_Witness ==
    /\ err = "No items to sort"
    /\ pc = "ask"
    /\ Len(sorter.undo) >= 2
    /\ DOMAIN sorter.cache # {}

\* ---- one judgment at a time ------------------------------------------------
\* the prefer() requests that are unresolved
Unresolved == Len(parked) + (IF pc = "ask" THEN 1 ELSE 0)

\* C14: whatever the order of Start, Cancel, Resume, reloads and answers, at
\* most one prefer() request is unresolved: no two loops are suspended.
C14_OnePendingRequest == Unresolved <= 1

\* ---- resumption ------------------------------------------------------------
MaxReplay == 2         \* oracle answers followed after a resumption

\* what the oracle sees of the run that goes on from r = [m, pc, pend] under
\* the answers ans: each pair requested, then the final ranking if reached
RECURSIVE Replay(_, _)
Replay(r, ans) ==
    IF r.pc # "ask" THEN <<[pair |-> <<>>, result |-> r.m.s.result]>>
    ELSE IF ans = <<>> THEN <<[pair |-> r.pend, result |-> <<>>]>>
    ELSE <<[pair |-> r.pend, result |-> <<>>]>>
         \o Replay(Resume(finish(r.m, r.pend[1], r.pend[2], Head(ans)), Head(ans)),
                   Tail(ans))

AnswerSeqs(O) == UNION {[1..k -> O] : k \in 0..MaxReplay}

\* the run resumed from the persisted state agrees with the suspended one
\* under every sequence of answers drawn from O
ResumesAlike(O) ==
    pc = "ask" =>
        \A ans \in AnswerSeqs(O) :
            Replay(continueSort(loadState(sorter, 1..n)), ans)
                = Replay([m |-> Machine, pc |-> pc, pend |-> pend], ans)

\* C15: at any pending judgment, the state written by JSON.stringify, read
\* back through sanitizeState and continued by continueSort requests the same
\* pairs and ends in the same ranking as the run that was never interrupted,
\* for the same later answers of the oracle.
C15_ResumeDeterministic == ResumesAlike(Outcomes)

\* ---- the cap of the undo stack ---------------------------------------------
\* the snapshot pushUndoSnapshot takes of state.sorter s
SnapshotOf(s) ==
    [mode |-> s.mode, active |-> s.active, totalComparisons |-> s.totalComparisons,
     stack |-> s.stack, cache |-> s.cache, ties |-> s.ties, elo |-> s.elo]

\* snapshot j of the stack shares no array with the live frame
Unshared(j) == j \notin {alias.L, alias.R, alias.out, alias.cache}

\* C16: the undo stack never holds more than MAX_UNDO snapshots; a push onto
\* a full stack discards the oldest snapshot, the others move down one place,
\* and the snapshot just pushed, that of the state at the request, is on top.
C16_UndoCapped ==
    [][/\ Len(sorter.undo') <= MAX_UNDO
       /\ pc' = "ask" => sorter.undo'[Len(sorter.undo')] = SnapshotOf(sorter')
       /\ (Len(sorter.undo) = MAX_UNDO /\ pc' = "ask" /\ hist' = Append(hist, hist'[Len(hist')])
              /\ hist'[Len(hist')] # "Back")
            => /\ Len(sorter.undo') = MAX_UNDO
               /\ \A j \in 1..(MAX_UNDO - 1) :
                     Unshared(j + 1) => sorter.undo'[j] = sorter.undo[j + 1]]_vars

\* a request is pending on a full stack whose oldest snapshots are gone
C16_Witness ==
    /\ pc = "ask"
    /\ Len(sorter.undo) = MAX_UNDO
    /\ Len(hist) > MAX_UNDO
    /\ sorter.undo[1].stack[1].L # <<>>

\* ---- Back ------------------------------------------------------------------
\* the step is the oracle's answer o to the pending request
Answered(o) == pc = "ask" /\ hist' = Append(hist, o)

\* the frame restoreFromUndo brings back: that of the snapshot under the top
RestoredStack == sorter.undo[Len(sorter.undo) - 1].stack

\* C17: when the oracle answers Back and there are two snapshots or more, the
\* driver suspends next at a request for (L[li], R[rj]) of the restored frame,
\* with that frame as it was restored: i not advanced, nothing emitted into
\* out or arr, the sort not completed.
C17_BackReissuesRequest ==
    [][(Answered("Back") /\ Len(sorter.undo) >= 2)
          => /\ pc' = "ask"
             /\ Len(RestoredStack) = 1
             /\ RestoredStack[1].li < Len(RestoredStack[1].L)
             /\ RestoredStack[1].rj < Len(RestoredStack[1].R)
             /\ pend' = <<RestoredStack[1].L[RestoredStack[1].li + 1],
                          RestoredStack[1].R[RestoredStack[1].rj + 1]>>
             /\ sorter.stack' = RestoredStack]_vars

\* the snapshot initSort pushes: a frame whose L and R are still empty
Pristine(snap) ==
    Len(snap.stack) = 1 /\ snap.stack[1].L = <<>> /\ snap.stack[1].R = <<>>

\* C18: restoreFromUndo on a stack of fewer than 2 snapshots returns false and
\* changes nothing; on 2 or more it pops the top and makes the state that of
\* the snapshot beneath; and the snapshot restored by a Back is never the
\* pristine one initSort pushed before the run's first request.
C18_RestoreFromUndo ==
    [][/\ Len(sorter.undo) < 2
            => restoreFromUndo(Machine) = [ok |-> FALSE, m |-> Machine]
       /\ (Answered("Back") /\ Len(sorter.undo) >= 2)
            => LET r == restoreFromUndo(Machine)
                   below == sorter.undo[Len(sorter.undo) - 1]
               IN  /\ r.ok
                   /\ r.m.s.undo = SubSeq(sorter.undo, 1, Len(sorter.undo) - 1)
                   /\ SnapshotOf(r.m.s) = below
                   /\ ~Pristine(below)]_vars

\* ---- snapshots are copies --------------------------------------------------
\* the snapshots an answer o leaves on the stack: all of them, or all but the
\* top one that Back pops
StillStored(o) == 1..(IF o = "Back" THEN Len(sorter.undo) - 1 ELSE Len(sorter.undo))

\* C19: whatever an answer makes the driver do to the live frame, cache and
\* ties (out.push, rotation of L and R, cache writes), every snapshot that
\* stays on the undo stack keeps its contents, also when a Back came before.
C19_SnapshotsIndependent ==
    [][\A o \in Outcomes :
          Answered(o) => \A j \in StillStored(o) : sorter.undo'[j] = sorter.undo[j]]_vars

\* ---- Skip ------------------------------------------------------------------
\* how often id x occurs among the ids of frame f not yet spliced into arr
Pending(f, x) ==
    LET ids == f.out \o SliceFrom(f.L, f.li) \o SliceFrom(f.R, f.rj)
    IN  Cardinality({k \in 1..Len(ids) : ids[k] = x})

\* frame f with L[li] and R[rj] each moved to the back of its list
Rotated(f) ==
    [f EXCEPT !.L = Append(RemoveAt(f.L, f.li), f.L[f.li + 1]),
              !.R = Append(RemoveAt(f.R, f.rj), f.R[f.rj + 1])]

\* C20: on Skip with one candidate left on each side the driver goes on as for
\* a tie: the frame it saves next has L[li] appended to out and li advanced.
\* Otherwise the frame it saves, and holds at the next request, is the frame
\* with L[li] and R[rj] moved to the back of their lists: li, rj, out, i, width
\* and arr are unchanged, no id is lost or gained among out, L[li..] and
\* R[rj..], and the pair requested next is not the pair skipped.
C20_Skip ==
    [][Answered("Skip") =>
          LET f == sorter.stack[1]
          IN  IF Len(f.L) - f.li = 1 /\ Len(f.R) - f.rj = 1
              THEN [f EXCEPT !.out = Append(f.out, f.L[f.li + 1]), !.li = f.li + 1]
                       \in SavedFrames'
              ELSE /\ Rotated(f) \in SavedFrames'
                   /\ sorter.stack' = <<Rotated(f)>>
                   /\ \A x \in 1..n : Pending(sorter.stack'[1], x) = Pending(f, x)
                   /\ pc' = "ask"
                   /\ pend' # pend]_vars

\* a Skip of 1|2 taken as a tie, 3 put before 4, then a Skip of 1|3 that
\* rotated L = [1,2] and R = [3,4]
C20_Witness ==
    /\ n = 4
    /\ hist = <<"Skip", "Left", "Skip">>
    /\ pc = "ask"
    /\ pend = <<2, 4>>
    /\ sorter.stack[1].L = <<2, 1>>
    /\ sorter.stack[1].R = <<4, 3>>

\* ---- liveness of the merge driver under Skip --------------------------------
\* C21: whatever the oracle answers among Left, Right, Tie and Skip, the merge
\* driver eventually completes.
C21_EventuallyDone == <>(pc = "done")

\* ---- Tie in the merge driver -------------------------------------------------
\* the frame right after `out.push(L[li]); li++` on the pending frame
LeftEmitted ==
    LET f == sorter.stack[1]
    IN  [f EXCEPT !.out = Append(f.out, f.L[f.li + 1]), !.li = f.li + 1]

\* C22: a Tie orders like Left: the frame saved right after the answer has
\* L[li] appended to out and li advanced, rj unchanged, and the run goes on to
\* the same frame, request and result as after Left; the pair is added to the
\* tie set under both key orders and nothing else is; Left and Right leave
\* the tie set as it was.
C22_TieLikeLeft ==
    [][/\ Answered("Tie") =>
            LET left == Reply([m |-> Machine, pend |-> pend], "Left")
            IN  /\ <<LeftEmitted>> \in saved'
                /\ LeftEmitted.rj = sorter.stack[1].rj
                /\ sorter'.stack = left.m.s.stack
                /\ sorter'.result = left.m.s.result
                /\ pc' = left.pc
                /\ pend' = left.pend
                /\ sorter'.ties = sorter.ties \cup {keyFor(pend[1], pend[2]),
                                                     keyFor(pend[2], pend[1])}
       /\ Answered("Left") => <<LeftEmitted>> \in saved' /\ sorter'.ties = sorter.ties
       /\ Answered("Right") => sorter'.ties = sorter.ties]_vars

\* 1|2 was answered Tie and the run is at its next request
C22_Witness ==
    /\ n = 3
    /\ hist = <<"Tie">>
    /\ pc = "ask"
    /\ pend = <<1, 3>>
    /\ sorter.ties = {<<1, 2>>, <<2, 1>>}
    /\ sorter.stack[1].arr = <<1, 2, 3>>

\* ---- initElo ------------------------------------------------------------------
\* the step runs initElo: a session starts, or resumes with no queue left
InitEloStep == pc = "idle" /\ pc' # "idle" /\ sorter'.mode = "elo"

\* C23: after initElo on n candidates totalPairs is max(n-1, round(1.5 * n *
\* ceil(log2 n))) times the multiplier of the intensity (0.6 fast, 1.0
\* balanced, 1.5 accurate; a product that is not whole may be rounded either
\* way), kFactor is 40, 32 or 24, and every rating is 1000.
C23_InitElo ==
    [][InitEloStep =>
          LET e == sorter'.elo[1]
              int == sorter'.eloIntensity
              h == CeilLog2(n)
              base == Max(n - 1, (3 * n * h + 1) \div 2)
              mult10 == CASE int = "fast" -> 6 [] int = "balanced" -> 10
                          [] int = "accurate" -> 15
              gap10 == 10 * e.totalPairs - mult10 * base
          IN  /\ -10 < gap10 /\ gap10 < 10
              /\ e.kFactor = (CASE int = "fast" -> 40 [] int = "balanced" -> 32
                                [] int = "accurate" -> 24)
              /\ DOMAIN e.ratings = 1..n
              /\ \A id \in 1..n : e.ratings[id] = 1000 * RUnit]_vars

\* ---- Back in the ELO driver ----------------------------------------------------
\* C24: the ELO state continueElo works on is state.sorter.elo itself, also
\* after a Back: the two are one object, with the same ratings, pairsDone,
\* queue and history.
C24_EloStateIsLive == pc # "idle" => eloLive /\ sorter.elo = <<elo>>

RankedBy(result, ratings) ==
    /\ IsPermutation(result, n)
    /\ DOMAIN ratings = 1..n
    /\ \A i, j \in 1..Len(result) : i < j => ratings[result[i]] >= ratings[result[j]]

\* the step leaves the properties of completion true of the ELO state e1,
\* which was e0 before the step
EloCompletion(e0, e1) ==
    /\ e1.pairsDone <= e1.totalPairs
    /\ pc' = "done" => /\ e1.pairsDone = e1.totalPairs
                       /\ Len(sorter'.result) = 1
                       /\ RankedBy(sorter'.result[1], e1.ratings)
    /\ pc' # "done" => e1.pairsDone < e1.totalPairs
    /\ (Answered("Skip") \/ Answered("Back")) => e1.pairsDone <= e0.pairsDone

\* C26: in an ELO run pairsDone of state.sorter.elo never exceeds totalPairs,
\* the driver is done exactly when it has reached totalPairs, Skip and Back do
\* not increase it, and the result is a permutation of the candidates in
\* non-increasing order of the ratings of state.sorter.elo.
C26_EloCompletion ==
    [][(sorter'.mode = "elo" /\ pc' # "idle" /\ Len(sorter.elo) = 1)
          => EloCompletion(sorter.elo[1], sorter'.elo[1])]_vars

\* the picker as it stands when nextRound has a snapshot's collections
AtSnapshot(snap) == restoreSnapshot(NewPicker, snap)

\* what one recorded promotion did: r.id went from survived to the end of
\* favorites, no eliminatedBy list holds it any more, an entry whose list it
\* emptied is in survived and no longer in eliminated, an entry with other
\* eliminators left keeps them in eliminated (unless no entry at all was
\* released: then every entry is released); and the rest of nextRound works on
\* that result: the batch and current are drawn from the released ids
Unlocked(r) ==
    LET b == r.before
        a == r.after
    IN  /\ b.current = <<>> /\ b.survived = <<r.id>>
        /\ a.favorites = Append(b.favorites, r.id)
        /\ \A k \in 1..Len(a.eliminated) : r.id \notin Range(a.eliminated[k].eliminatedBy)
        /\ \A k \in 1..Len(b.eliminated) :
              LET e == b.eliminated[k]
                  rest == NotIn(e.eliminatedBy, <<r.id>>)
              IN  IF rest = <<>>
                  THEN /\ e.id \in Range(a.survived)
                       /\ e.id \notin Range(EntryIds(a.eliminated))
                  ELSE IF \E j \in 1..Len(b.eliminated) :
                              NotIn(b.eliminated[j].eliminatedBy, <<r.id>>) = <<>>
                       THEN [id |-> e.id, eliminatedBy |-> rest] \in Range(a.eliminated)
                       ELSE a.eliminated = <<>> /\ e.id \in Range(a.survived)
        /\ \A q \in nextRound(AtSnapshot(b)) :
              /\ Range(q.evaluating) \cup Range(q.current) = Range(a.survived)
              /\ q.survived = <<>>
              /\ q.favorites = a.favorites
              /\ q.eliminated = a.eliminated

\* C27: every promotion of a lone survivor by nextRound (current empty) removes
\* the new favourite from every eliminatedBy list and moves each entry whose
\* list became empty from eliminated back into survived, before survived is
\* shuffled into current and the next batch is drawn
C27_Unlock == \A r \in picker.promoted : Unlocked(r)

\* a promotion that released one entry and left another, still held by a
\* different id, in eliminated
C27_Witness ==
    \E r \in picker.promoted :
        /\ Len(r.after.survived) = 1
        /\ Len(r.before.eliminated) = 2
        /\ Len(r.after.eliminated) = 1
        /\ r.id \in UNION {Range(r.before.eliminated[k].eliminatedBy) : k \in 1..2}

PrefixOf(s, t) == Len(s) <= Len(t) /\ SubSeq(t, 1, Len(s)) = s

\* a step of the running picker made by one of the operations ops
PickerStep(ops) == pphase = "run" /\ pops' = pops + 1 /\ plast'[1].op \in ops

\* C28 as stated: across every pick, pass and undo of a run, favorites before
\* the operation is a prefix of favorites after it
C28_AppendOnlyWithUndo ==
    [][PickerStep({"pick", "pass", "undo"}) =>
          PrefixOf(picker.favorites, picker'.favorites)]_vars

\* C28: across every pick and pass of a run, favorites before the operation is
\* a prefix of favorites after it; undo() puts back the favorites of the
\* snapshot it restores, and favorites after an undo is a prefix of favorites
\* before it
C28_AppendOnly ==
    [][/\ PickerStep({"pick", "pass"}) => PrefixOf(picker.favorites, picker'.favorites)
       /\ PickerStep({"undo"}) =>
             /\ undo(picker).favorites = picker.history[picker.historyIndex + 1].favorites
             /\ PrefixOf(undo(picker).favorites, picker.favorites)
             /\ PrefixOf(picker'.favorites, picker.favorites)]_vars

\* an undo has taken back what a pick had appended to a non-empty favorites
C28_Witness ==
    /\ pphase = "run"
    /\ plast # <<>>
    /\ plast[1].op = "undo"
    /\ picker.favorites # <<>>
    /\ Len(picker.favorites) < Len(plast[1].before.favorites)

NothingLeft(p) ==
    /\ Len(p.evaluating) = 0 /\ Len(p.current) = 0
    /\ Len(p.survived) = 0 /\ Len(p.eliminated) = 0

\* C29: once the picker has been initialised, isComplete() holds exactly when
\* every candidate id is in favorites, and whenever evaluating, current,
\* survived and eliminated are all empty favorites holds every candidate
\* exactly once
C29_Completion ==
    pphase = "run" =>
        /\ isComplete(picker, pn) <=> Range(picker.favorites) = 1..pn
        /\ NothingLeft(picker) => IsPermutation(picker.favorites, pn)

\* computeProvisionalRanking() on the frame st; every id of a frame is a
\* candidate's, so the lookup in idMap and filter(Boolean) drop nothing
computeProvisionalRanking(st) ==
    LET N == Len(st.arr)
        blockEnd == Min(N, st.i + 2 * st.width)
        before == Slice(st.arr, 0, st.i)
        after == SliceFrom(st.arr, blockEnd)
        inBlock == st.out \o SliceFrom(st.L, st.li) \o SliceFrom(st.R, st.rj)
    IN  before \o inBlock \o after

\* C30: on every frame of a merge sort (the live one, the ones in the undo
\* snapshots, which Back puts back, and the ones handed to saveState, the frame
\* right after initSort and those between blocks among them) the provisional
\* ranking is a permutation of all the candidates
C30_ProvisionalPermutation ==
    sorter.mode = "merge" =>
        \A f \in LiveFrames \cup SnapshotFrames \cup SavedFrames :
            IsPermutation(computeProvisionalRanking(f), n)

\* ---- importJSON ------------------------------------------------------------
MaxImportN == 2        \* candidates loaded when a file is imported: 1..MaxImportN
MaxImportLen == 2      \* longest ranking of an imported document

\* the tier names an imported document may carry and the longest list under one
ImportTierKeys == {"S", "Unplaced"}

SeqsUpTo(S, k) == UNION {[1..j -> S] : j \in 0..k}

\* the parsed documents explored: tiers is <<>> when the document has no
\* tiers member, else one map from tier names to id lists; ranking is <<>>
\* when the member is not an array, else the array.  The id n + 1 is no
\* candidate's.
ImportDocs ==
    LET Ids == 1..(n + 1)
        TierMaps == UNION {[D -> SeqsUpTo(Ids, 1)] : D \in SUBSET ImportTierKeys}
    IN  [tiers : {<<>>} \cup {<<t>> : t \in TierMaps},
         ranking : {<<>>} \cup {<<r>> : r \in SeqsUpTo(Ids, MaxImportLen)}]

\* Object.values(data.tiers).flat()
TierIds(t) == UNION {Range(t[k]) : k \in DOMAIN t}

\* importJSON once the file is parsed: the message of the exception caught
\* ("" for none), state.tiers and state.sorter.result after the call
importJSON(data, ts, result, ids) ==
    IF data.tiers = <<>>
    THEN [threw |-> "Invalid file", tiers |-> ts, result |-> result]
    ELSE IF ~(TierIds(data.tiers[1]) \subseteq ids)
    THEN [threw |-> "Unknown id in file", tiers |-> ts, result |-> result]
    ELSE [threw |-> "",
          tiers |-> [t \in DOMAIN NoTiers \cup DOMAIN data.tiers[1] |->
                        IF t \in DOMAIN data.tiers[1] THEN data.tiers[1][t] ELSE NoTiers[t]],
          result |-> IF data.ranking = <<>> THEN result
                     ELSE <<SelectSeq(data.ranking[1], LAMBDA id : id \in ids)>>]

\* a loaded session, sorted or not, with an empty tier board
InitImport ==
    /\ n \in 1..MaxImportN
    /\ sorter \in {[defaultState EXCEPT !.result = r] :
                      r \in {<<>>} \cup {<<x>> : x \in Shuffles([k \in 1..n |-> k])}}
    /\ alias = NoAlias
    /\ pc = "idle"
    /\ pend = <<>>
    /\ hist = <<>>
    /\ elo = EloDefault
    /\ eloLive = FALSE
    /\ lastUpd = <<>>
    /\ saved = {}
    /\ SessionUnused
    /\ PickerUnused
    /\ CutoffsUnused

\* #input-import-json changes to a file whose text parses to data
inputImportJson(data) ==
    /\ \E r \in {importJSON(data, tiers, sorter.result, 1..n)} :
          /\ err' = r.threw
          /\ tiers' = r.tiers
          /\ sorter' = [sorter EXCEPT !.result = r.result]
          /\ saved' = IF r.threw = "" THEN {sorter.stack} ELSE {}
    /\ UNCHANGED <<n, alias, pc, pend, hist, elo, eloLive, lastUpd>>
    /\ UNCHANGED <<parked, resumeShown, uiEvents, pvars, cutState, screen, cops>>

NextImport == \E data \in ImportDocs : inputImportJson(data)

SpecImport == InitImport /\ [][NextImport]_vars

\* the document names an id that is no candidate's, in its tiers or its ranking
HasUnknownId(data) ==
    \/ data.tiers # <<>> /\ ~(TierIds(data.tiers[1]) \subseteq 1..n)
    \/ data.ranking # <<>> /\ ~(Range(data.ranking[1]) \subseteq 1..n)

\* C31: an import of a document that names an unknown id, in its tiers or in
\* its ranking, is rejected as a whole and leaves state.tiers and
\* state.sorter.result as they were
C31_ImportRejectsUnknownIds ==
    [][\A data \in ImportDocs :
          (inputImportJson(data) /\ HasUnknownId(data)) =>
              /\ err' # ""
              /\ tiers' = tiers
              /\ sorter'.result = sorter.result]_vars

\* ---- sanitizeState on an arbitrary persisted blob ---------------------------
MaxSanN == 1           \* candidates of the stored data: 1..MaxSanN
MaxBlobLen == 2        \* longest arr of a stored frame

\* A member of a stored frame as JSON.parse gives it: a list member is <<>>
\* when it is not an array, else <<the array>>, whose entries are 0 for a
\* value that is not a string, 1..n for a candidate's id and n + 1 for a
\* string that is no candidate's id; a cursor is <<>> when it is not a
\* number, else <<the number>>.
RawLists(k) == {<<>>} \cup {<<x>> : x \in SeqsUpTo(0..(n + 1), k)}

RawShortLists == {<<>>} \cup {<<x>> : x \in {<<>>, <<1>>, <<n + 1>>, <<n + 1, 1>>}}

RawOutLists == {<<>>, <<(<<>>)>>, <<(<<n + 1, 1>>)>>}

RawCursors == {<<>>} \cup {<<c>> : c \in (-1)..(MaxBlobLen + 1)}

RawWidths == {<<>>, <<-1>>, <<0>>, <<2>>}

\* the stored frames explored; li, rj and i hold the same stored value
BlobFrames ==
    {[arr |-> a, L |-> l, R |-> r, out |-> o, li |-> c, rj |-> c, i |-> c, width |-> w] :
        a \in RawLists(MaxBlobLen), l \in RawShortLists, r \in RawShortLists,
        o \in RawOutLists, c \in RawCursors, w \in RawWidths}

\* v|0: 0 for what is not a number; the numbers explored are integers of
\* 32 bits, which |0 leaves as they are
ToInt32(v) == IF v = <<>> THEN 0 ELSE v[1]

\* fixIdList on a stored list member
fixRawIdList(list, ids) ==
    IF list = <<>> THEN <<>> ELSE SelectSeq(list[1], LAMBDA x : x # 0 /\ x \in ids)

\* the frame with its cursors clamped to the stored lists, before the filter
sanitizeStackClampFirst(f, ids) ==
    LET len(list) == IF list = <<>> THEN 0 ELSE Len(list[1])
    IN  [arr |-> fixRawIdList(f.arr, ids), L |-> fixRawIdList(f.L, ids),
         R |-> fixRawIdList(f.R, ids), out |-> fixRawIdList(f.out, ids),
         li |-> Max(0, Min(ToInt32(f.li), len(f.L))),
         rj |-> Max(0, Min(ToInt32(f.rj), len(f.R))),
         i |-> Max(0, Min(ToInt32(f.i), len(f.arr))),
         width |-> Max(1, IF ToInt32(f.width) = 0 THEN 1 ELSE ToInt32(f.width))]

\* "sanitize stack if present" of sanitizeState, on a stored frame
sanitizeStack(f, ids) ==
    LET arr1 == fixRawIdList(f.arr, ids)
        L1 == fixRawIdList(f.L, ids)
        R1 == fixRawIdList(f.R, ids)
        out1 == fixRawIdList(f.out, ids)
    IN  [arr |-> arr1, L |-> L1, R |-> R1, out |-> out1,
         li |-> Max(0, Min(ToInt32(f.li), Len(L1))),
         rj |-> Max(0, Min(ToInt32(f.rj), Len(R1))),
         i |-> Max(0, Min(ToInt32(f.i), Len(arr1))),
         width |-> Max(1, IF ToInt32(f.width) = 0 THEN 1 ELSE ToInt32(f.width))]

\* sanitizeState on a parsed blob whose sorter is s: undo, cache, ties and
\* result are kept as they are
sanitizeBlob(s, ids) ==
    IF Len(s.stack) = 1 /\ ids # {}
    THEN [s EXCEPT !.stack = <<sanitizeStack(s.stack[1], ids)>>]
    ELSE s

\* localStorage holds a blob with candidates 1..n and a frame; the snapshot
\* on top of its undo stack holds the same frame, as in a blob written while
\* a request was pending.  state.sorter is the blob's sorter, not yet loaded.
InitSanitize ==
    /\ n \in 1..MaxSanN
    /\ sorter \in {[defaultState EXCEPT
                       !.active = TRUE,
                       !.stack = <<f>>,
                       !.undo = <<[mode |-> "merge", active |-> TRUE, totalComparisons |-> 0,
                                   stack |-> <<f>>, cache |-> EmptyMap, ties |-> {},
                                   elo |-> <<EloDefault>>]>>] : f \in BlobFrames}
    /\ alias = NoAlias
    /\ pc = "idle"
    /\ pend = <<>>
    /\ hist = <<>>
    /\ elo = EloDefault
    /\ eloLive = FALSE
    /\ lastUpd = <<>>
    /\ saved = {}
    /\ SessionUnused
    /\ PickerUnused
    /\ CutoffsUnused

\* the page is loaded: state = loadState(), applyStateOnLoad
loadBlob ==
    /\ uiEvents = 0
    /\ uiEvents' = 1
    /\ sorter' = sanitizeBlob(sorter, 1..n)
    /\ resumeShown' = (hasProgress(sorter') /\ Len(sorter'.result) = 0)
    /\ UNCHANGED <<n, alias, pc, pend, hist, elo, eloLive, lastUpd, saved>>
    /\ UNCHANGED <<err, parked, pvars, cvars>>

NextSanitize == loadBlob

SpecSanitize == InitSanitize /\ [][NextSanitize]_vars

\* C32: a stored blob with a frame and a non-empty candidate list is never
\* rejected by sanitizeState: the loaded state has a frame, whose arr, L, R
\* and out hold only candidates' ids and whose cursors satisfy
\* 0 <= li <= |L|, 0 <= rj <= |R|, 0 <= i <= |arr| and width >= 1
C32_SanitizedFrame ==
    uiEvents = 1 =>
        /\ Len(sorter.stack) = 1
        /\ LET f == sorter.stack[1]
           IN  /\ Range(f.arr) \cup Range(f.L) \cup Range(f.R) \cup Range(f.out) \subseteq 1..n
               /\ 0 <= f.li /\ f.li <= Len(f.L)
               /\ 0 <= f.rj /\ f.rj <= Len(f.R)
               /\ 0 <= f.i /\ f.i <= Len(f.arr)
               /\ f.width >= 1

\* a loaded blob whose stored L held an unknown id before a candidate's and
\* whose stored cursors pointed past the filtered L
C32_Witness ==
    /\ uiEvents = 1
    /\ LET raw == sorter.undo[1].stack[1]
       IN  /\ raw.L = <<(<<n + 1, 1>>)>>
           /\ raw.li = <<2>>
           /\ raw.width = <<0>>
           /\ n + 1 \in Range(raw.arr[1])
    /\ sorter.stack[1].L = <<1>>
    /\ sorter.stack[1].li = 1

\* ---- abandoned driver loops and the keyboard --------------------------------
MaxLoopN == 3          \* candidates of the sessions: 1..MaxLoopN
MaxLoopEvents == 3     \* Start and Cancel clicks explored

\* In this specification `parked` holds every suspended continueSort loop,
\* in the order of their keydown listeners, the loop of the last Start too:
\* pend is the pair of its unresolved prefer(), st the frame its `const st`
\* refers to, live whether that frame is still state.sorter.stack, cur whether
\* the last Start made it.

\* a loop whose frame st is no longer state.sorter.stack is answered o:
\* finish writes the cache and ties of state.sorter, the loop goes on merging
\* in st, its pushUndoSnapshot() calls push snapshots of state.sorter, and its
\* `Done` tail assigns state.sorter.active, result and stack
DetachedWrites(m1, r, loop) ==
    [m |-> [m1 EXCEPT !.s.cache = r.m.s.cache,
                      !.s.ties = r.m.s.ties,
                      !.s.undo = [j \in 1..Len(r.m.s.undo) |->
                                     IF j > Len(m1.s.undo)
                                     THEN [r.m.s.undo[j] EXCEPT !.stack = m1.s.stack]
                                     ELSE r.m.s.undo[j]],
                      !.s.active = IF r.pc = "done" THEN FALSE ELSE @,
                      !.s.result = IF r.pc = "done" THEN r.m.s.result ELSE @,
                      !.s.stack = IF r.pc = "done" THEN <<>> ELSE @,
                      !.sv = @ \cup {m1.s.stack}
                               \cup (IF r.pc = "done" THEN {<<>>} ELSE {})],
     pc |-> r.pc, pend |-> r.pend,
     st |-> IF r.pc = "done" THEN loop.st ELSE r.m.s.stack[1]]

\* m1 is the machine finish has written; the loop runs on in its own frame
DetachedReply(m1, loop, o) ==
    DetachedWrites(m1, Resume([m1 EXCEPT !.s.stack = <<loop.st>>, !.al = NoAlias], o), loop)

\* one keydown listener after the other, the continuation of each loop
\* running to its next suspension before the next listener is called:
\* the machine and the loops still suspended after the event, and whether a
\* loop has reached its `Done` tail. KeyNext takes the reply r of the first
\* loop (isLive: its frame is state.sorter.stack) and goes on with the rest.
RECURSIVE KeyLoops(_, _, _, _, _), KeyNext(_, _, _, _, _, _)
KeyLoops(m, loops, o, left, ended) ==
    IF loops = <<>> THEN [m |-> m, loops |-> left, ended |-> ended]
    ELSE KeyNext(IF Head(loops).live /\ m.s.stack # <<>>
                 THEN Resume(finish(m, Head(loops).pend[1], Head(loops).pend[2], o), o)
                 ELSE DetachedReply(finish(m, Head(loops).pend[1], Head(loops).pend[2], o),
                                    Head(loops), o),
                 Head(loops).live /\ m.s.stack # <<>>, loops, o, left, ended)

KeyNext(r, isLive, loops, o, left, ended) ==
    KeyLoops(r.m, Tail(loops), o,
             IF r.pc = "done" THEN left
             ELSE Append(left, [pend |-> r.pend,
                                st |-> IF isLive THEN r.m.s.stack[1] ELSE r.st,
                                live |-> isLive, cur |-> Head(loops).cur]),
             ended \/ r.pc = "done")

InitLoops ==
    /\ n \in 1..MaxLoopN
    /\ sorter = defaultState
    /\ alias = NoAlias
    /\ pc = "idle"
    /\ pend = <<>>
    /\ hist = <<>>
    /\ elo = EloDefault
    /\ eloLive = FALSE
    /\ lastUpd = <<>>
    /\ saved = {}
    /\ SessionUnused
    /\ PickerUnused
    /\ CutoffsUnused

\* click on #btn-start: startSorting() replaces state and starts a loop; the
\* loops suspended before stay suspended, their frames are no longer state's
startSortingLoops ==
    /\ screen = "welcome"
    /\ uiEvents < MaxLoopEvents
    /\ \E r \in {continueSort(initSort(FreshMachine, [k \in 1..n |-> k]))} :
          /\ Install(r)
          /\ screen' = IF r.pc = "done" THEN "results" ELSE "sorter"
          /\ parked' = [k \in 1..Len(parked) |-> [parked[k] EXCEPT !.live = FALSE, !.cur = FALSE]]
                       \o (IF r.pc = "ask"
                           THEN <<[pend |-> r.pend, st |-> r.m.s.stack[1],
                                   live |-> TRUE, cur |-> TRUE]>>
                           ELSE <<>>)
    /\ hist' = <<>>
    /\ tiers' = NoTiers
    /\ err' = ""
    /\ uiEvents' = uiEvents + 1
    /\ UNCHANGED <<n, lastUpd, resumeShown, pvars, cutState, cops>>

\* click on #btn-cancel-sort
cancelSortLoops ==
    /\ uiEvents < MaxLoopEvents
    /\ btnCancelSort

\* ArrowLeft, t or ArrowRight on the document, whatever screen is shown: the
\* onKey of every unresolved prefer() is called
onKeyLoops(o) ==
    /\ parked # <<>>
    /\ \E r \in {KeyLoops(Machine, parked, o, <<>>, FALSE)} :
          /\ sorter' = r.m.s
          /\ saved' = r.m.sv
          /\ parked' = r.loops
          /\ pc' = IF \E k \in 1..Len(r.loops) : r.loops[k].cur THEN "ask"
                   ELSE IF pc = "ask" THEN "done" ELSE pc
          /\ pend' = IF \E k \in 1..Len(r.loops) : r.loops[k].cur
                     THEN r.loops[CHOOSE k \in 1..Len(r.loops) : r.loops[k].cur].pend
                     ELSE <<>>
          /\ screen' = IF r.ended THEN "results" ELSE screen
    /\ hist' = Append(hist, o)
    /\ UNCHANGED <<n, alias, elo, eloLive, lastUpd>>
    /\ UNCHANGED <<err, resumeShown, uiEvents, pvars, cutState, tiers, cops>>

NextLoops ==
    \/ startSortingLoops
    \/ cancelSortLoops
    \/ \E o \in Judgments : onKeyLoops(o)

SpecLoops == InitLoops /\ [][NextLoops]_vars

\* the loop of the last Start, when it is suspended
ActiveLoops == SelectSeq(parked, LAMBDA loop : loop.cur)

\* C33: when a key answers the pending judgments while loops of cancelled
\* runs are still suspended, state.sorter (cache, ties, frame, undo stack,
\* result, active) changes as the loop of the last Start alone changes it:
\* the abandoned loops write nothing to it
C33_OnlyActiveLoopWrites ==
    [][\A o \in Judgments :
          (onKeyLoops(o) /\ Len(parked) > Len(ActiveLoops)) =>
              sorter' = KeyLoops(Machine, ActiveLoops, o, <<>>, FALSE).m.s]_vars

\* the chosen counts of the first k tiers, added up
RECURSIVE ChosenSum(_, _)
ChosenSum(cs, k) ==
    IF k = 0 THEN 0 ELSE ChosenSum(cs, k - 1) + ChosenOr0(cs, CUTOFF_TIERS[k])

Precedes(seq, a, b) ==
    \E i, j \in 1..Len(seq) : i < j /\ seq[i] = a /\ seq[j] = b

\* C35: when the merge run has completed, every pair whose cache entry says a
\* was preferred to b (cache[a|b] = 1) has a before b in the final ranking,
\* whatever Left, Tie, Right, Skip and Back answers the run was given
C35_RankingRespectsCache ==
    (pc = "done" /\ Len(sorter.result) = 1) =>
        \A k \in DOMAIN sorter.cache :
            sorter.cache[k] = 1 => Precedes(sorter.result[1], k[1], k[2])

\* ---- the picker answered by proper picks only ---------------------------
MaxLivePicks == 6      \* picks explored in one such run

\* PickerUI.pick with some but not all of the batch selected. A batch of one
\* is never on screen (update regenerates it), so Pass has nothing to answer.
PickerUI_pickProper(pickedIds) ==
    /\ pphase = "run"
    /\ pops < MaxLivePicks
    /\ pickedIds \in Selections(picker.evaluating)
    /\ \E q \in pick(picker, pickedIds) : Shown("pick", pickedIds, q)
    /\ pops' = pops + 1
    /\ UNCHANGED <<pn, pphase, svars, uvars, cvars>>

NextPickerLive ==
    \/ initPickerMode
    \/ \E pickedIds \in Selections(picker.evaluating) : PickerUI_pickProper(pickedIds)

\* A step of NextPickerLive is possible exactly when the screen has not been
\* opened yet or a batch of two or more is on screen (initialize, pick and
\* update always return), and it is the only way pphase or pops change.
AnswerGiven ==
    /\ \/ pphase = "new"
       \/ pphase = "run" /\ pops < MaxLivePicks /\ Len(picker.evaluating) >= 2
    /\ pphase' = "run"
    /\ pops' = IF pphase = "new" THEN pops ELSE pops + 1

\* the screen is opened and every batch on screen is answered
SpecPickerLive ==
    InitPicker /\ [][NextPickerLive]_vars /\ WF_<<pphase, pops>>(AnswerGiven)

\* C36: when every batch is answered by a pick of some but not all of its
\* candidates, the picker eventually reports isComplete() with every
\* candidate in favorites
C36_PickerCompletes ==
    <>(/\ pphase = "run"
       /\ isComplete(picker, pn)
       /\ Range(picker.favorites) = 1..pn)

\* ---- the picker's history ------------------------------------------------

\* C37: in every state the picker screen reaches by pick, pass, undo and redo,
\* whenever canRedo() is true redo() finds a recorded snapshot at
\* history[historyIndex + 1] after its increment: it does not read past the
\* end of history
C37_RedoAvailable ==
    (pphase = "run" /\ canRedo(picker)) => ~redo(picker).threw

\* C38: an undo right after a pick or pass puts eliminated, survived, current,
\* evaluating, favorites, batchSize and pickCount back to what they were
\* before that operation; a redo right after an undo puts them back to what
\* they were before the undo; a pick or pass cuts history off after the
\* snapshot of the state shown, appends that state, and leaves nothing to redo
C38_UndoRedoRoundTrip ==
    [][/\ (PickerStep({"undo"}) /\ plast # <<>> /\ plast[1].op \in {"pick", "pass"}) =>
             getStateSnapshot(picker') = plast[1].before
       /\ (PickerStep({"redo"}) /\ plast # <<>> /\ plast[1].op = "undo") =>
             getStateSnapshot(picker') = plast[1].before
       /\ PickerStep({"pick", "pass"}) =>
             /\ picker'.history =
                    Append(SubSeq(picker.history, 1, picker.historyIndex + 1),
                           getStateSnapshot(picker))
             /\ picker'.historyIndex = Len(picker'.history) - 1
             /\ ~canRedo(picker')]_vars

\* a redo has brought back the state a pick had produced, after the undo that
\* took it away
C38_Witness ==
    /\ pphase = "run"
    /\ plast # <<>>
    /\ plast[1].op = "redo"
    /\ picker.pickCount > 0
    /\ plast[1].before.pickCount < picker.pickCount
    /\ picker.history[Len(picker.history)] = getStateSnapshot(picker)

\* ---- the eliminators of the picker --------------------------------------

\* the ids named in some eliminatedBy list of p
Eliminators(p) ==
    UNION {Range(p.eliminated[k].eliminatedBy) : k \in 1..Len(p.eliminated)}

MaxElimN == 4          \* candidates of such a run: 4..MaxElimN
MaxElimOps == 3        \* picker operations explored in such a run

\* new PresidentialPicker(data) with at least four candidates
InitEliminators ==
    /\ SorterUnused
    /\ SessionUnused
    /\ CutoffsUnused
    /\ pn \in 4..MaxElimN
    /\ picker = NewPicker
    /\ pphase = "new"
    /\ plast = <<>>
    /\ pops = 0

\* the handlers of the picker screen, MaxElimOps operations at most
NextEliminators ==
    \/ initPickerMode
    \/ \E pickedIds \in Selections(picker.evaluating) :
          pops < MaxElimOps /\ PickerUI_pick(pickedIds)
    \/ pops < MaxElimOps /\ PickerUI_pass
    \/ pops < MaxElimOps /\ PickerUI_undo
    \/ pops < MaxElimOps /\ PickerUI_redo

SpecEliminators == InitEliminators /\ [][NextEliminators]_vars

\* C39: in every state the picker reaches by pick, pass and undo (and redo),
\* every eliminated entry has a non-empty eliminatedBy list and no id of
\* favorites is named in any eliminatedBy list
C39_Eliminators ==
    pphase = "run" =>
        /\ \A k \in 1..Len(picker.eliminated) : picker.eliminated[k].eliminatedBy # <<>>
        /\ Eliminators(picker) \cap Range(picker.favorites) = {}

\* a pick has made a favorite while another candidate stays eliminated by one
\* that is still to be ranked
C39_Witness ==
    /\ pphase = "run"
    /\ plast # <<>>
    /\ plast[1].op = "pick"
    /\ picker.favorites # <<>>
    /\ picker.eliminated # <<>>
    /\ Len(picker.evaluating) >= 2

====
